---- MODULE Spec2Model ----
(***************************************************************************)
(* State-machine model of the mDNS responder core in                       *)
(* src/light/managed_components/espressif__mdns/mdns.c.                    *)
(*                                                                         *)
(* The model follows the code function by function.  A C function that     *)
(* mutates the server structure is an operator from a server record `s`    *)
(* to the server record after the call; an action bundles the variables    *)
(* into such a record (Srv), applies the handler and commits the result.   *)
(*                                                                         *)
(* Build that is modelled: CONFIG_LWIP_IPV4 only, two interfaces that are  *)
(* registered as each other's duplicate (STA and ETH).                     *)
(*                                                                         *)
(* Time.  The code reads the tick count and only ever compares tick values *)
(* with each other, so the model keeps every time as its difference, in    *)
(* milliseconds, to the current tick count (`now` is 0 in every handler,   *)
(* a packet is due when its send_at is negative).  Differences stay far    *)
(* below 2^31 ms, so the unsigned comparison of _mdns_schedule_tx_packet   *)
(* and the signed difference of _mdns_scheduler_run agree on them.         *)
(*                                                                         *)
(* Memory.  Allocations succeed in the behaviours of Spec and SpecIf (oom  *)
(* stays FALSE); the branches a failed allocation takes are kept in the    *)
(* operators.  The address a new packet gets may be that of a packet freed *)
(* earlier in the same handler, which a waiting TX_HANDLE action may still *)
(* hold, or a fresh one.                                                   *)
(***************************************************************************)
EXTENDS Integers, Sequences, FiniteSets, TLC

VARIABLES
    hostname,       \* _mdns_server->hostname (<<>> is NULL / empty)
    services,       \* _mdns_server->services, head first
    pcbs,           \* _mdns_server->interfaces[i].pcbs[j]
    tx_queue,       \* _mdns_server->tx_queue_head, head first
    action_queue,   \* _mdns_server->action_queue (FreeRTOS queue)
    cur,            \* action the service task has received and not yet executed
    share_step,     \* static share_step of _mdns_create_answer_from_parsed_packet
    oom,            \* whether allocations of this behaviour may fail
    budget,         \* environment events still allowed
    stall,          \* timer callbacks that may still find the service task with work at hand
    hist,           \* history: what each PCB and the wire have seen
    search_once,    \* _mdns_server->search_once: the searches in the list, head first
    searches,       \* the mdns_search_once_t objects, by address
    calls,          \* the application tasks inside a blocking call of the API
    action_sema,    \* _mdns_server->action_sema (binary semaphore)
    hosts,          \* _mdns_host_list: the names of the delegated hosts, head first
    browse,         \* _mdns_server->browse: the active browses with their results, head first
    fqdn,           \* a packet, the offset of a name in it, and what _mdns_parse_fqdn returns for them
    service_semaphore,  \* _mdns_service_semaphore (mutex): 1 while no task holds it
    action_queue_len    \* the length that mdns_init creates the action queue with

vars == <<hostname, services, pcbs, tx_queue, action_queue, cur,
          share_step, oom, budget, stall, hist, search_once, searches, calls,
          action_sema, hosts, browse, fqdn, service_semaphore, action_queue_len>>

-----------------------------------------------------------------------------
(* Bounds of the model *)

MaxEvents == 3         \* events of the application and the network, Spec
MaxStall == 2          \* timer callbacks that find the service task busy, Spec
MaxIfEvents == 4       \* system events, SpecIf
MaxIfStall == 1        \* timer callbacks that find the service task busy, SpecIf
ActionQueueLen == 1    \* MDNS_ACTION_QUEUE_LEN, scaled down
MaxSearches == 2       \* searches alive at the same time
MaxQueryEvents == 5    \* calls, packets and system events, SpecSearch
MaxServices == 3       \* CONFIG_MDNS_MAX_SERVICES, scaled down
MaxNameEvents == 4     \* calls of the application, SpecNames
MaxQueryStall == 1     \* timer callbacks that find the service task busy, SpecSearch
MaxLongEvents == 3     \* packets and system events, SpecLong
MaxPtrEvents == 4      \* calls, packets and system events, SpecPtr
MaxDupEvents == 4      \* packets and system events, SpecDup
MaxBrowseEvents == 5   \* calls, packets and system events, SpecBrowse
MaxResults == 2        \* results that the browses hold at a time
MaxApiEvents == 3      \* calls of the application, SpecApi
MaxTxtEvents == 3      \* calls and system events, SpecTxt
MaxAsyncEvents == 4    \* calls, packets and system events, SpecAsync
MaxSyncEvents == 4     \* calls, packets and system events, SpecSync

(* Program constants *)

PROBE_GAP_MS == 250
ANNOUNCE_GAP_MS == 1000
PROBE_START_MS == 120
PROBE_START_SLOW_MS == 1000
MAX_FAILED_FAST == 5
RANDOM_MASK == 127
SHARE_BASE_MS == 25
SHARE_STEP_MS == 25
SHARE_STEP_MASK == 3
TIMER_PERIOD_MS == 100
MDNS_NAME_BUF_LEN == 64
MDNS_ANSWER_PTR_TTL == 4500
SEARCH_RESEND_MS == 1000

-----------------------------------------------------------------------------
(* Sets the inputs are drawn from *)

Ifs == {0, 1}
Protos == {"V4"}
PCBs == Ifs \X Protos
RxIfs == {0}                     \* interfaces that packets arrive on
HostNames == {<<"a">>}
Fill(n) == [m \in 1..n |-> "a"]
\* hostnames of the greatest lengths that mdns_hostname_set accepts
LongNames == {Fill(n) : n \in (MDNS_NAME_BUF_LEN - 3)..(MDNS_NAME_BUF_LEN - 1)}
               \cup {Fill(MDNS_NAME_BUF_LEN - 3) \o <<"-", "9">>}
CallHostNames == {<<"a">>, <<"b">>}     \* hostnames that the followed calls set
DelegatedNames == {<<"b">>, <<"d">>}    \* names of delegated hosts
SvcTypes == {"_http"}
SvcInstances == {<<>>, <<"x">>, <<"y">>} \* instance names of services (<<>>: NULL)
SvcHosts == {<<>>, <<"A">>, <<"d">>}     \* host argument of mdns_service_add_for_host
SvcItems == <<"_http", "_http.2", "_http.3">>   \* addresses of service items
RandSet == {0, RANDOM_MASK}      \* esp_random() & 0x7F, its two extremes

PcbStateNum ==
    [OFF |-> 0, DUP |-> 1, INIT |-> 2, PROBE_1 |-> 3, PROBE_2 |-> 4, PROBE_3 |-> 5,
     ANNOUNCE_1 |-> 6, ANNOUNCE_2 |-> 7, ANNOUNCE_3 |-> 8, RUNNING |-> 9]

PcbStateName ==
    <<"OFF", "DUP", "INIT", "PROBE_1", "PROBE_2", "PROBE_3",
      "ANNOUNCE_1", "ANNOUNCE_2", "ANNOUNCE_3", "RUNNING">>

NextPcbState(st) == PcbStateName[PcbStateNum[st] + 2]

PCB_STATE_IS_PROBING(pcb) ==
    PcbStateNum[pcb.state] > PcbStateNum["OFF"]
    /\ PcbStateNum[pcb.state] < PcbStateNum["ANNOUNCE_1"]

PCB_STATE_IS_ANNOUNCING(pcb) ==
    PcbStateNum[pcb.state] >= PcbStateNum["ANNOUNCE_1"]
    /\ PcbStateNum[pcb.state] < PcbStateNum["RUNNING"]

ProbeStates == {"PROBE_1", "PROBE_2", "PROBE_3"}
AnnounceStates == {"ANNOUNCE_1", "ANNOUNCE_2", "ANNOUNCE_3"}

-----------------------------------------------------------------------------
(* Small helpers on sequences *)

SetMin(S) == CHOOSE x \in S : \A y \in S : x <= y
SetMax(S) == CHOOSE x \in S : \A y \in S : x >= y

_str_null_or_empty(str) == str = <<>>

-----------------------------------------------------------------------------
(* _mdns_mangle_name: names are sequences of one-character strings *)

Digits == <<"0", "1", "2", "3", "4", "5", "6", "7", "8", "9">>
IsDigit(c) == \E d \in 1..10 : Digits[d] = c
DigitVal(c) == (CHOOSE d \in 1..10 : Digits[d] = c) - 1

RECURSIVE Dec(_)
Dec(n) == IF n < 10 THEN <<Digits[n + 1]>>
          ELSE Dec(n \div 10) \o <<Digits[(n % 10) + 1]>>

RECURSIVE StrToL(_, _)
StrToL(t, acc) == IF t = <<>> \/ ~IsDigit(Head(t)) THEN [val |-> acc, rest |-> t]
                  ELSE StrToL(Tail(t), acc * 10 + DigitVal(Head(t)))

StrRChr(in, c) == LET I == {i \in 1..Len(in) : in[i] = c}
                  IN IF I = {} THEN 0 ELSE SetMax(I)

_mdns_mangle_name(in) ==
    LET p == StrRChr(in, "-")
        parsed == IF p = 0 THEN [val |-> 0, rest |-> <<>>]
                  ELSE StrToL(SubSeq(in, p + 1, Len(in)), 0)
        numeric == p # 0 /\ parsed.rest = <<>>
    IN IF ~numeric THEN in \o <<"-", "2">>
       ELSE SubSeq(in, 1, p - 1) \o <<"-">> \o Dec(parsed.val + 1)

-----------------------------------------------------------------------------
(* The server record and its packets *)

ALL_PCBS == <<<<0, "V4">>, <<1, "V4">>>>     \* the order of the for (i) for (j) loops

_mdns_get_other_if(tcpip_if) == 1 - tcpip_if

mdns_is_netif_ready(s, i, j) == s.pcbs[<<i, j>>].ready

PcbOff == [state |-> "OFF", ready |-> FALSE, probe_ip |-> FALSE, probe_services |-> <<>>,
           probe_running |-> FALSE, failed_probes |-> 0]

SetPcb(s, k, pcb) == [s EXCEPT !.pcbs[k] = pcb]

SetState(s, k, st) == [s EXCEPT !.pcbs[k].state = st]

SvcById(s, id) == CHOOSE v \in {s.services[n] : n \in 1..Len(s.services)} : v.id = id

_mdns_get_default_instance_name(s) == s.hostname

_mdns_get_service_instance_name(s, svc) ==
    IF ~_str_null_or_empty(svc.instance) THEN svc.instance
    ELSE _mdns_get_default_instance_name(s)

\* the letters of the names that are used
tolower(c) == CASE c = "A" -> "a" [] c = "D" -> "d" [] OTHER -> c

\* whether strcasecmp(a, b) is 0
strcasecmp(a, b) ==
    Len(a) = Len(b) /\ \A n \in 1..Len(a) : tolower(a[n]) = tolower(b[n])

\* &_mdns_self_host, a delegated host or NULL.  The delegated hosts are not
\* told apart here: the packets that are built are about the self host.
mdns_get_host_item(s, name) ==
    IF name = <<>> \/ strcasecmp(name, s.hostname) THEN "self"
    ELSE IF \E n \in 1..Len(s.hosts) : strcasecmp(s.hosts[n], name) THEN "delegated"
    ELSE "none"

_mdns_service_match(svc, service, hname) ==
    /\ svc.service = service
    /\ _str_null_or_empty(hname) \/ strcasecmp(svc.hostname, hname)

_mdns_get_service_item(s, service, hname) ==
    {n \in 1..Len(s.services) : _mdns_service_match(s.services[n], service, hname)}

_mdns_instance_name_match(s, lhs, rhs) ==
    strcasecmp(IF lhs = <<>> THEN _mdns_get_default_instance_name(s) ELSE lhs,
               IF rhs = <<>> THEN _mdns_get_default_instance_name(s) ELSE rhs)

_mdns_get_service_item_instance(s, instance, service, hname) ==
    {n \in 1..Len(s.services) :
        IF instance # <<>>
        THEN /\ _mdns_service_match(s.services[n], service, hname)
             /\ _mdns_instance_name_match(s, s.services[n].instance, instance)
        ELSE _mdns_service_match(s.services[n], service, hname)}

_mdns_alloc_packet_default(id, i, j) ==
    [id |-> id, tcpip_if |-> i, ip_protocol |-> j, flags |-> "QUERY", distributed |-> FALSE,
     queued |-> FALSE, send_at |-> 0, stamp |-> 0, kind |-> "answer",
     questions |-> <<>>, answers |-> <<>>, servers |-> <<>>, additional |-> <<>>]

\* the address malloc returns: the lowest one that no live packet has.  The
\* address of a freed packet may be used again at once, or not (s.avoid).
AllocId(s, held) ==
    LET used == {s.txq[n].id : n \in 1..Len(s.txq)} \cup held \cup s.avoid
    IN SetMin((1..(Cardinality(used) + 1)) \ used)

_mdns_alloc_answer(dest, type, service, host) ==
    IF \E n \in 1..Len(dest) :
          dest[n].type = type /\ dest[n].service = service /\ dest[n].host = host
    THEN dest
    ELSE Append(dest, [type |-> type, service |-> service, host |-> host])

_mdns_append_host(dest, host) ==
    _mdns_alloc_answer(_mdns_alloc_answer(dest, "A", "", host), "AAAA", "", host)

RECURSIVE AppendHostsOf(_, _, _)
AppendHostsOf(s, dest, svcs) ==
    IF svcs = <<>> THEN dest
    ELSE AppendHostsOf(s,
            _mdns_append_host(dest, mdns_get_host_item(s, SvcById(s, Head(svcs)).hostname)),
            Tail(svcs))

\* services_null: the caller passed services == NULL
_mdns_append_host_list_in_services(s, dest, svcs, services_null) ==
    IF services_null
    THEN _mdns_append_host(dest, mdns_get_host_item(s, s.hostname))
    ELSE AppendHostsOf(s, dest, svcs)

_mdns_question_exists(q, qs) ==
    \E n \in 1..Len(qs) : qs[n].type = q.type /\ qs[n].ref = q.ref /\ qs[n].service = q.service

AddQuestion(qs, q) == IF _mdns_question_exists(q, qs) THEN qs ELSE Append(qs, q)

RECURSIVE HostQuestionsOf(_, _, _)
HostQuestionsOf(s, qs, svcs) ==
    IF svcs = <<>> THEN qs
    ELSE LET v == SvcById(s, Head(svcs))
         IN HostQuestionsOf(s,
               AddQuestion(qs, [type |-> "ANY", host |-> v.hostname, service |-> "",
                                ref |-> v.id, unicast |-> TRUE]),
               Tail(svcs))

_mdns_append_host_questions_for_services(s, qs, svcs) ==
    HostQuestionsOf(s,
        IF ~_str_null_or_empty(s.hostname)
        THEN AddQuestion(qs, [type |-> "ANY", host |-> s.hostname, service |-> "",
                              ref |-> "server", unicast |-> TRUE])
        ELSE qs,
        svcs)

RECURSIVE ProbeServiceQuestions(_, _, _)
ProbeServiceQuestions(s, p, svcs) ==
    IF svcs = <<>> THEN p
    ELSE LET v == SvcById(s, Head(svcs))
             q == [type |-> "ANY", host |-> _mdns_get_service_instance_name(s, v),
                   service |-> v.service, unicast |-> TRUE,
                   ref |-> IF _str_null_or_empty(v.instance) THEN "server" ELSE v.id]
         IN IF _str_null_or_empty(q.host) \/ _mdns_question_exists(q, p.questions)
            THEN ProbeServiceQuestions(s, p, Tail(svcs))
            ELSE ProbeServiceQuestions(s,
                    [p EXCEPT !.questions = Append(@, q),
                              !.servers = _mdns_alloc_answer(@, "SRV", v.id, "")],
                    Tail(svcs))

_mdns_create_probe_packet(s, id, i, j, svcs, services_null, include_ip) ==
    LET p0 == [_mdns_alloc_packet_default(id, i, j) EXCEPT !.kind = "probe"]
        p1 == ProbeServiceQuestions(s, p0, svcs)
    IN IF include_ip
       THEN [p1 EXCEPT
               !.questions = _mdns_append_host_questions_for_services(s, @, svcs),
               !.servers = _mdns_append_host_list_in_services(s, @, svcs, services_null)]
       ELSE p1

RECURSIVE AnnounceAnswers(_, _)
AnnounceAnswers(dest, svcs) ==
    IF svcs = <<>> THEN dest
    ELSE AnnounceAnswers(
            _mdns_alloc_answer(_mdns_alloc_answer(_mdns_alloc_answer(_mdns_alloc_answer(
                dest, "SDPTR", Head(svcs), ""), "PTR", Head(svcs), ""),
                "SRV", Head(svcs), ""), "TXT", Head(svcs), ""),
            Tail(svcs))

_mdns_create_announce_packet(s, id, i, j, svcs, services_null, include_ip) ==
    LET p0 == [_mdns_alloc_packet_default(id, i, j) EXCEPT
                  !.kind = "announce", !.flags = "QR_AUTHORITATIVE"]
        p1 == [p0 EXCEPT !.answers = AnnounceAnswers(@, svcs)]
    IN IF include_ip
       THEN [p1 EXCEPT !.servers = _mdns_append_host_list_in_services(s, @, svcs, services_null)]
       ELSE p1

RECURSIVE AnnounceFromServers(_, _, _)
AnnounceFromServers(s, dest, srv) ==
    IF srv = <<>> THEN dest
    ELSE LET a == Head(srv)
         IN IF a.type = "SRV"
            THEN AnnounceFromServers(s,
                    _mdns_append_host(AnnounceAnswers(dest, <<a.service>>),
                        mdns_get_host_item(s, SvcById(s, a.service).hostname)),
                    Tail(srv))
            ELSE IF a.type \in {"A", "AAAA"}
            THEN AnnounceFromServers(s, _mdns_alloc_answer(dest, a.type, "", a.host), Tail(srv))
            ELSE AnnounceFromServers(s, dest, Tail(srv))

_mdns_create_announce_from_probe(s, id, probe) ==
    [_mdns_alloc_packet_default(id, probe.tcpip_if, probe.ip_protocol) EXCEPT
        !.kind = "announce", !.flags = "QR_AUTHORITATIVE",
        !.answers = AnnounceFromServers(s, <<>>, probe.servers)]

-----------------------------------------------------------------------------
(* The tx queue *)

_mdns_schedule_tx_packet_alt(s, packet, ms_after) ==
    LET p == [packet EXCEPT !.send_at = s.now + ms_after, !.stamp = s.stamp]
        q == s.txq
    IN [s EXCEPT !.stamp = @ + 1, !.txq = <<p>> \o q]

_mdns_schedule_tx_packet(s, packet, ms_after) ==
    LET p == [packet EXCEPT !.send_at = s.now + ms_after, !.stamp = s.stamp]
        q == s.txq
        s1 == [s EXCEPT !.stamp = @ + 1]
    IN IF q = <<>> \/ q[1].send_at > p.send_at
       THEN [s1 EXCEPT !.txq = <<p>> \o q]
       ELSE LET k == SetMin({n \in 1..Len(q) : n = Len(q) \/ q[n + 1].send_at > p.send_at})
            IN [s1 EXCEPT !.txq = SubSeq(q, 1, k) \o <<p>> \o SubSeq(q, k + 1, Len(q))]

_mdns_clear_tx_queue_head(s) == [s EXCEPT !.txq = <<>>]

_mdns_clear_pcb_tx_queue_head(s, i, j) ==
    [s EXCEPT !.txq = SelectSeq(@, LAMBDA p : ~(p.tcpip_if = i /\ p.ip_protocol = j))]

_mdns_get_next_pcb_packet(s, i, j) ==
    LET I == {n \in 1..Len(s.txq) : s.txq[n].tcpip_if = i /\ s.txq[n].ip_protocol = j}
    IN IF I = {} THEN 0 ELSE SetMin(I)

_mdns_dealloc_answer(dest, type) ==
    LET I == {n \in 1..Len(dest) : dest[n].type = type /\ dest[n].service = ""}
    IN IF I = {} THEN dest
       ELSE SubSeq(dest, 1, SetMin(I) - 1) \o SubSeq(dest, SetMin(I) + 1, Len(dest))

_mdns_dealloc_scheduled_service_answers(dest, service) ==
    SelectSeq(dest, LAMBDA a : a.service # service)

\* _mdns_dispatch_tx_packet: the packet goes to the wire.  The history keeps,
\* for a packet taken from the tx queue, when it was sent and in which state
\* of its PCB, and whether the queue order was respected; for every packet,
\* whether its PCB was in PCB_DUP.
_mdns_dispatch_tx_packet(s, p, from_queue) ==
    LET k == <<p.tcpip_if, p.ip_protocol>>
        h == [s.hist EXCEPT !.dup_tx = @ \/ s.pcbs[k].state = "DUP"]
        e == [kind |-> p.kind, state |-> s.pcbs[k].state,
              gap |-> IF h.log[k] = <<>> THEN 0 ELSE h.since[k] + p.send_at]
        in_order == \A n \in 1..Len(h.last_tx) :
                       \/ h.last_tx[n].send_at < p.send_at
                       \/ h.last_tx[n].send_at = p.send_at /\ h.last_tx[n].stamp < p.stamp
    IN IF ~from_queue THEN [s EXCEPT !.hist = h]
       ELSE [s EXCEPT !.hist =
               [h EXCEPT
                  !.log[k] = IF e.state \in ProbeStates \cup AnnounceStates
                             THEN Append(@, e) ELSE @,
                  !.since[k] = 0,
                  !.order_ok = @ /\ in_order,
                  !.tx.sent = Append(@, p.id),
                  !.last_tx = <<[send_at |-> p.send_at, stamp |-> p.stamp]>>]]

LogReset(s, k) == [s EXCEPT !.hist.log[k] = <<>>]

\* The goodbye packets are sent at once (_mdns_pcb_send_bye); what is kept of
\* them is the PCBs they went out on and the services whose PTR record they
\* carry with TTL 0.
_mdns_send_bye(s, svcs, include_ip) ==
    IF _str_null_or_empty(s.hostname) THEN s
    ELSE LET on == {k \in PCBs : /\ mdns_is_netif_ready(s, k[1], k[2])
                                  /\ s.pcbs[k].state = "RUNNING"}
         IN [s EXCEPT !.hist.bye = @ \o <<[pcbs |-> on, services |-> svcs]>>,
                      !.hist.dup_tx = @ \/ \E k \in on : s.pcbs[k].state = "DUP"]

_mdns_send_bye_all_pcbs_no_instance(s, include_ip) ==
    LET svcs == SelectSeq(s.services, LAMBDA v : v.instance = <<>>)
    IN IF svcs = <<>> THEN s
       ELSE _mdns_send_bye(s, [n \in 1..Len(svcs) |-> svcs[n].id], include_ip)

\* a probe sequence starts, or the PCB is initialised: nothing is probed yet
ProbeReset(s, k) == [LogReset(s, k) EXCEPT !.hist.probed[k] = FALSE]

-----------------------------------------------------------------------------
(* Probing and announcing *)

AllServices(s) == [n \in 1..Len(s.services) |-> s.services[n].id]

InSeq(x, q) == \E n \in 1..Len(q) : q[n] = x

\* a start of probing that waits no longer after many failed probes
_mdns_init_pcb_probe_new_service_fast(s, e, i, j, svcs, probe_ip) ==
    LET k == <<i, j>>
        pcb == s.pcbs[k]
        final == IF PCB_STATE_IS_PROBING(pcb) THEN svcs \o pcb.probe_services ELSE svcs
        pip == pcb.probe_ip \/ probe_ip
        reset == [pcb EXCEPT !.probe_ip = FALSE, !.probe_services = <<>>,
                             !.probe_running = FALSE]
        packet == _mdns_create_probe_packet(s, AllocId(s, {}), i, j,
                                            final, final = <<>>, pip)
        delay == PROBE_START_MS + e.rnd[k]
    IN IF ~e.ok
       THEN (IF final # <<>> THEN s ELSE SetPcb(s, k, reset))
       ELSE LET s1 == SetPcb(s, k, [reset EXCEPT !.probe_ip = pip, !.probe_services = final,
                                                 !.probe_running = TRUE])
                s2 == _mdns_schedule_tx_packet(ProbeReset(s1, k), packet, delay)
            IN SetState(s2, k, "PROBE_1")

_mdns_init_pcb_probe_new_service(s, e, i, j, svcs, probe_ip) ==
    LET k == <<i, j>>
        pcb == s.pcbs[k]
        final == IF PCB_STATE_IS_PROBING(pcb) THEN svcs \o pcb.probe_services ELSE svcs
        pip == pcb.probe_ip \/ probe_ip
        reset == [pcb EXCEPT !.probe_ip = FALSE, !.probe_services = <<>>,
                             !.probe_running = FALSE]
        packet == _mdns_create_probe_packet(s, AllocId(s, {}), i, j,
                                            final, final = <<>>, pip)
        delay == (IF pcb.failed_probes > MAX_FAILED_FAST
                  THEN PROBE_START_SLOW_MS ELSE PROBE_START_MS) + e.rnd[k]
    IN IF ~e.ok
       THEN (IF final # <<>> THEN s ELSE SetPcb(s, k, reset))
       ELSE LET s1 == SetPcb(s, k, [reset EXCEPT !.probe_ip = pip, !.probe_services = final,
                                                 !.probe_running = TRUE])
                s2 == _mdns_schedule_tx_packet(ProbeReset(s1, k), packet, delay)
            IN SetState(s2, k, "PROBE_1")

\* a start of probing that leaves the scheduled packets of the PCB in the queue
_mdns_init_pcb_probe_keep(s, e, i, j, svcs, probe_ip) ==
    LET k == <<i, j>>
        pcb == s.pcbs[k]
    IN IF _str_null_or_empty(s.hostname)
       THEN SetState(s, k, "RUNNING")
       ELSE IF PCB_STATE_IS_PROBING(pcb)
       THEN _mdns_init_pcb_probe_new_service(s, e, i, j,
               SelectSeq(svcs, LAMBDA v : ~InSeq(v, pcb.probe_services)), probe_ip)
       ELSE _mdns_init_pcb_probe_new_service(s, e, i, j, svcs, probe_ip)

_mdns_init_pcb_probe(s, e, i, j, svcs, probe_ip) ==
    LET k == <<i, j>>
        s1 == _mdns_clear_pcb_tx_queue_head(s, i, j)
        pcb == s1.pcbs[k]
    IN IF _str_null_or_empty(s1.hostname)
       THEN SetState(s1, k, "RUNNING")
       ELSE IF PCB_STATE_IS_PROBING(pcb)
       THEN _mdns_init_pcb_probe_new_service(s1, e, i, j,
               SelectSeq(svcs, LAMBDA v : ~InSeq(v, pcb.probe_services)), probe_ip)
       ELSE _mdns_init_pcb_probe_new_service(s1, e, i, j, svcs, probe_ip)

_mdns_restart_pcb(s, e, i, j) == _mdns_init_pcb_probe(s, e, i, j, AllServices(s), TRUE)

RECURSIVE ProbePcbs(_, _, _, _, _, _)
ProbePcbs(s, e, todo, svcs, probe_ip, clear_old_probe) ==
    IF todo = <<>> THEN s
    ELSE LET k == Head(todo)
             s1 == IF clear_old_probe
                   THEN [s EXCEPT !.pcbs[k].probe_services = <<>>,
                                  !.pcbs[k].probe_running = FALSE]
                   ELSE s
         IN ProbePcbs(
               IF mdns_is_netif_ready(s, k[1], k[2])
               THEN _mdns_init_pcb_probe(s1, e, k[1], k[2], svcs, probe_ip)
               ELSE s,
               e, Tail(todo), svcs, probe_ip, clear_old_probe)

_mdns_probe_all_pcbs(s, e, svcs, probe_ip, clear_old_probe) ==
    ProbePcbs(s, e, ALL_PCBS, svcs, probe_ip, clear_old_probe)

_mdns_restart_all_pcbs(s, e) ==
    _mdns_probe_all_pcbs(_mdns_clear_tx_queue_head(s), e, AllServices(s), TRUE, TRUE)

\* an announce request that makes a RUNNING PCB probe again
_mdns_announce_pcb_reprobe(s, e, i, j, svcs, include_ip) ==
    LET k == <<i, j>>
        pcb == s.pcbs[k]
        n == _mdns_get_next_pcb_packet(s, i, j)
    IN IF ~mdns_is_netif_ready(s, i, j) THEN s
       ELSE IF PCB_STATE_IS_PROBING(pcb)
       THEN _mdns_init_pcb_probe(s, e, i, j, svcs, include_ip)
       ELSE IF PCB_STATE_IS_ANNOUNCING(pcb)
       THEN (IF n = 0 THEN s
             ELSE LET p == s.txq[n]
                      a1 == IF e.ok THEN AnnounceAnswers(p.answers, svcs) ELSE p.answers
                      p1 == IF include_ip
                            THEN [p EXCEPT
                                    !.additional = _mdns_dealloc_answer(
                                                      _mdns_dealloc_answer(@, "A"), "AAAA"),
                                    !.answers = IF e.ok
                                                THEN _mdns_append_host_list_in_services(
                                                         s, a1, svcs, svcs = <<>>)
                                                ELSE a1]
                            ELSE [p EXCEPT !.answers = a1]
                  IN SetState(LogReset([s EXCEPT !.txq[n] = p1], k), k, "ANNOUNCE_1"))
       ELSE IF pcb.state = "RUNNING"
       THEN _mdns_init_pcb_probe(s, e, i, j, svcs, include_ip)
       ELSE s

_mdns_announce_pcb(s, e, i, j, svcs, include_ip) ==
    LET k == <<i, j>>
        pcb == s.pcbs[k]
        n == _mdns_get_next_pcb_packet(s, i, j)
    IN IF ~mdns_is_netif_ready(s, i, j) THEN s
       ELSE IF PCB_STATE_IS_PROBING(pcb)
       THEN _mdns_init_pcb_probe(s, e, i, j, svcs, include_ip)
       ELSE IF PCB_STATE_IS_ANNOUNCING(pcb)
       THEN (IF n = 0 THEN s
             ELSE LET p == s.txq[n]
                      a1 == IF e.ok THEN AnnounceAnswers(p.answers, svcs) ELSE p.answers
                      p1 == IF include_ip
                            THEN [p EXCEPT
                                    !.additional = _mdns_dealloc_answer(
                                                      _mdns_dealloc_answer(@, "A"), "AAAA"),
                                    !.answers = IF e.ok
                                                THEN _mdns_append_host_list_in_services(
                                                         s, a1, svcs, svcs = <<>>)
                                                ELSE a1]
                            ELSE [p EXCEPT !.answers = a1]
                  IN SetState(LogReset([s EXCEPT !.txq[n] = p1], k), k, "ANNOUNCE_1"))
       ELSE IF pcb.state = "RUNNING"
       THEN (IF _str_null_or_empty(s.hostname) THEN s
             ELSE LET s1 == SetState(LogReset(s, k), k, "ANNOUNCE_1")
                      p == _mdns_create_announce_packet(s, AllocId(s, {}), i, j,
                                                        svcs, svcs = <<>>, include_ip)
                  IN IF e.ok THEN _mdns_schedule_tx_packet(s1, p, 0) ELSE s1)
       ELSE s

RECURSIVE RemoveLoop(_, _, _, _)
RemoveLoop(s, svc, rest, done) ==
    IF rest = <<>> THEN [s EXCEPT !.txq = done]
    ELSE LET q == Head(rest)
             service == svc.id
             k == <<q.tcpip_if, q.ip_protocol>>
             pcb == s.pcbs[k]
             had_answers == q.answers # <<>>
             q1 == [q EXCEPT
                      !.answers = _mdns_dealloc_scheduled_service_answers(@, service),
                      !.additional = _mdns_dealloc_scheduled_service_answers(@, service),
                      !.servers = _mdns_dealloc_scheduled_service_answers(@, service)]
             probing == mdns_is_netif_ready(s, k[1], k[2]) /\ PCB_STATE_IS_PROBING(pcb)
                        /\ InSeq(service, pcb.probe_services)
             pcb1 == IF probing
                     THEN (IF Len(pcb.probe_services) > 1
                           THEN [pcb EXCEPT !.probe_services = SelectSeq(@, LAMBDA v : v # service)]
                           ELSE IF ~pcb.probe_ip
                           THEN [pcb EXCEPT !.probe_services = <<>>, !.probe_running = FALSE,
                                            !.state = "RUNNING"]
                           ELSE [pcb EXCEPT !.probe_services = <<>>])
                     ELSE IF mdns_is_netif_ready(s, k[1], k[2]) /\ PCB_STATE_IS_ANNOUNCING(pcb)
                             /\ had_answers /\ q1.answers = <<>>
                     THEN [pcb EXCEPT !.state = "RUNNING"]
                     ELSE pcb
             I == {n \in 1..Len(q1.questions) :
                      q1.questions[n].type = "ANY" /\ q1.questions[n].service = svc.service}
             q2 == IF probing /\ I # {}
                   THEN [q1 EXCEPT !.questions = SubSeq(@, 1, SetMin(I) - 1)
                                                 \o SubSeq(@, SetMin(I) + 1, Len(@))]
                   ELSE q1
             empty == q2.questions = <<>> /\ q2.answers = <<>> /\ q2.additional = <<>>
                      /\ q2.servers = <<>>
         IN RemoveLoop(SetPcb(s, k, pcb1), svc, Tail(rest),
                       IF empty THEN done ELSE Append(done, q2))

_mdns_remove_scheduled_service_packets(s, svc) == RemoveLoop(s, svc, s.txq, <<>>)

-----------------------------------------------------------------------------
(* Interfaces *)

_mdns_pcb_init(s, i, j) == ProbeReset([s EXCEPT !.pcbs[<<i, j>>].ready = TRUE], <<i, j>>)

mdns_pcb_deinit_local(s, i, j) ==
    ProbeReset([s EXCEPT !.pcbs[<<i, j>>] = PcbOff], <<i, j>>)

_mdns_enable_pcb(s, e, i, j) ==
    IF ~mdns_is_netif_ready(s, i, j)
    THEN _mdns_restart_pcb(_mdns_pcb_init(s, i, j), e, i, j)
    ELSE _mdns_restart_pcb(s, e, i, j)

\* a disable that leaves a duplicate of the interface as it is
_mdns_disable_pcb_alone(s, e, i, j) ==
    IF mdns_is_netif_ready(s, i, j)
    THEN SetState(mdns_pcb_deinit_local(_mdns_clear_pcb_tx_queue_head(s, i, j), i, j),
                  <<i, j>>, "OFF")
    ELSE SetState(s, <<i, j>>, "OFF")

_mdns_disable_pcb(s, e, i, j) ==
    LET other_if == _mdns_get_other_if(i)
        s1 == mdns_pcb_deinit_local(_mdns_clear_pcb_tx_queue_head(s, i, j), i, j)
        s2 == IF s1.pcbs[<<other_if, j>>].state = "DUP"
              THEN _mdns_enable_pcb(SetState(s1, <<other_if, j>>, "OFF"), e, other_if, j)
              ELSE s1
    IN IF mdns_is_netif_ready(s, i, j)
       THEN SetState(s2, <<i, j>>, "OFF")
       ELSE SetState(s, <<i, j>>, "OFF")

\* a duplicate interface whose scheduled packets stay in the tx queue
_mdns_dup_interface_keep(s, e, i) ==
    LET other_if == _mdns_get_other_if(i)
        j == "V4"
        s1 == IF mdns_is_netif_ready(s, i, j)
              THEN mdns_pcb_deinit_local(s, i, j)
              ELSE s
    IN IF mdns_is_netif_ready(s, other_if, j)
       THEN _mdns_announce_pcb(SetState(s1, <<i, j>>, "DUP"), e, other_if, j, <<>>, TRUE)
       ELSE s

_mdns_dup_interface(s, e, i) ==
    LET other_if == _mdns_get_other_if(i)
        j == "V4"
        s1 == IF mdns_is_netif_ready(s, i, j)
              THEN mdns_pcb_deinit_local(_mdns_clear_pcb_tx_queue_head(s, i, j), i, j)
              ELSE s
    IN IF mdns_is_netif_ready(s, other_if, j)
       THEN _mdns_announce_pcb(SetState(s1, <<i, j>>, "DUP"), e, other_if, j, <<>>, TRUE)
       ELSE s

perform_event_action(s, e, i, action) ==
    IF action = "ENABLE_IP4" THEN _mdns_enable_pcb(s, e, i, "V4")
    ELSE IF action = "DISABLE_IP4" THEN _mdns_disable_pcb(s, e, i, "V4")
    ELSE _mdns_announce_pcb(s, e, i, "V4", <<>>, TRUE)

-----------------------------------------------------------------------------
(* Transmission *)

\* a handler that waits for the third probe as long as for an announcement
_mdns_tx_handle_packet_slow(s, e, p) ==
    LET k == <<p.tcpip_if, p.ip_protocol>>
        pcb == s.pcbs[k]
        s1 == _mdns_dispatch_tx_packet(s, p, TRUE)
        multicast == [p EXCEPT !.questions =
                        [n \in 1..Len(p.questions) |-> [p.questions[n] EXCEPT !.unicast = FALSE]]]
        a == _mdns_create_announce_from_probe(s, AllocId(s, {p.id}), p)
        done == [pcb EXCEPT !.probe_running = FALSE, !.probe_ip = FALSE,
                            !.probe_services = <<>>, !.failed_probes = 0]
    IN IF pcb.state = "OFF" THEN s
       ELSE IF pcb.state = "PROBE_1"
       THEN SetState(_mdns_schedule_tx_packet(s1, multicast, PROBE_GAP_MS), k,
                     NextPcbState(pcb.state))
       ELSE IF pcb.state = "PROBE_2"
       THEN SetState(_mdns_schedule_tx_packet(s1, p, ANNOUNCE_GAP_MS), k,
                     NextPcbState(pcb.state))
       ELSE IF pcb.state = "PROBE_3"
       THEN (IF ~e.ok THEN _mdns_schedule_tx_packet(s1, p, PROBE_GAP_MS)
             ELSE SetState(_mdns_schedule_tx_packet(
                              [SetPcb(s1, k, done) EXCEPT !.hist.probed[k] = TRUE],
                              a, PROBE_GAP_MS),
                           k, "ANNOUNCE_1"))
       ELSE IF pcb.state \in {"ANNOUNCE_1", "ANNOUNCE_2"}
       THEN SetState(_mdns_schedule_tx_packet(s1, p, ANNOUNCE_GAP_MS), k,
                     NextPcbState(pcb.state))
       ELSE IF pcb.state = "ANNOUNCE_3"
       THEN SetState(s1, k, "RUNNING")
       ELSE s1

\* a handler that ends the announcing after the first announcement
_mdns_tx_handle_packet_once(s, e, p) ==
    LET k == <<p.tcpip_if, p.ip_protocol>>
        pcb == s.pcbs[k]
        s1 == _mdns_dispatch_tx_packet(s, p, TRUE)
        multicast == [p EXCEPT !.questions =
                        [n \in 1..Len(p.questions) |-> [p.questions[n] EXCEPT !.unicast = FALSE]]]
        a == _mdns_create_announce_from_probe(s, AllocId(s, {p.id}), p)
        done == [pcb EXCEPT !.probe_running = FALSE, !.probe_ip = FALSE,
                            !.probe_services = <<>>, !.failed_probes = 0]
    IN IF pcb.state = "OFF" THEN s
       ELSE IF pcb.state = "PROBE_1"
       THEN SetState(_mdns_schedule_tx_packet(s1, multicast, PROBE_GAP_MS), k,
                     NextPcbState(pcb.state))
       ELSE IF pcb.state = "PROBE_2"
       THEN SetState(_mdns_schedule_tx_packet(s1, p, PROBE_GAP_MS), k,
                     NextPcbState(pcb.state))
       ELSE IF pcb.state = "PROBE_3"
       THEN (IF ~e.ok THEN _mdns_schedule_tx_packet(s1, p, PROBE_GAP_MS)
             ELSE SetState(_mdns_schedule_tx_packet(
                              [SetPcb(s1, k, done) EXCEPT !.hist.probed[k] = TRUE],
                              a, PROBE_GAP_MS),
                           k, "ANNOUNCE_1"))
       ELSE IF pcb.state \in {"ANNOUNCE_1", "ANNOUNCE_2"}
       THEN SetState(_mdns_schedule_tx_packet(s1, p, ANNOUNCE_GAP_MS), k, "RUNNING")
       ELSE IF pcb.state = "ANNOUNCE_3"
       THEN SetState(s1, k, "RUNNING")
       ELSE s1

_mdns_tx_handle_packet(s, e, p) ==
    LET k == <<p.tcpip_if, p.ip_protocol>>
        pcb == s.pcbs[k]
        s1 == _mdns_dispatch_tx_packet(s, p, TRUE)
        multicast == [p EXCEPT !.questions =
                        [n \in 1..Len(p.questions) |-> [p.questions[n] EXCEPT !.unicast = FALSE]]]
        a == _mdns_create_announce_from_probe(s, AllocId(s, {p.id}), p)
        done == [pcb EXCEPT !.probe_running = FALSE, !.probe_ip = FALSE,
                            !.probe_services = <<>>, !.failed_probes = 0]
    IN IF pcb.state = "OFF" THEN s
       ELSE IF pcb.state = "PROBE_1"
       THEN SetState(_mdns_schedule_tx_packet(s1, multicast, PROBE_GAP_MS), k,
                     NextPcbState(pcb.state))
       ELSE IF pcb.state = "PROBE_2"
       THEN SetState(_mdns_schedule_tx_packet(s1, p, PROBE_GAP_MS), k,
                     NextPcbState(pcb.state))
       ELSE IF pcb.state = "PROBE_3"
       THEN (IF ~e.ok THEN _mdns_schedule_tx_packet(s1, p, PROBE_GAP_MS)
             ELSE SetState(_mdns_schedule_tx_packet(
                              [SetPcb(s1, k, done) EXCEPT !.hist.probed[k] = TRUE],
                              a, PROBE_GAP_MS),
                           k, "ANNOUNCE_1"))
       ELSE IF pcb.state \in {"ANNOUNCE_1", "ANNOUNCE_2"}
       THEN SetState(_mdns_schedule_tx_packet(s1, p, ANNOUNCE_GAP_MS), k,
                     NextPcbState(pcb.state))
       ELSE IF pcb.state = "ANNOUNCE_3"
       THEN SetState(s1, k, "RUNNING")
       ELSE s1

NoRx == [qr |-> FALSE, authoritative |-> FALSE, probe |-> FALSE, questions |-> FALSE,
         answers |-> FALSE, a |-> "none", host |-> <<>>, ptr |-> <<>>,
         ttl |-> 120, data_len |-> 4, qptr |-> "", known |-> <<>>, records |-> <<>>]

\* a browse is told by its service and protocol; a mdns_browse_sync_t holds the
\* browse and the addresses of the results that changed, head first
NoBrowse == [service |-> "", proto |-> ""]
NoSync == [browse |-> NoBrowse, result |-> <<>>]

NoAction == [type |-> "NONE", packet |-> 0, interface |-> 0, event |-> "", hostname |-> <<>>,
             rx |-> NoRx, search |-> 0, caller |-> 0, browse |-> NoBrowse, sync |-> NoSync]

TxHandleAction(id) == [NoAction EXCEPT !.type = "TX_HANDLE", !.packet = id]

\* xQueueSend(action_queue, &action, 0) finds room in a queue of length len
QueueHasRoom(aq, len) == Len(aq) < len

CanSend(aq) == QueueHasRoom(aq, action_queue_len)

\* The loop of _mdns_scheduler_run from packet n on.  The service task takes
\* its next action outside the lock, so it may receive one while the loop runs:
\* deq_at is the position of the loop at which it does (0: it does not).
RECURSIVE Sweep(_, _, _, _)
Sweep(st, n, time, deq_at) ==
    IF n > Len(st.txq) \/ ~(st.txq[n].send_at < time) THEN st
    ELSE LET st1 == IF deq_at = n /\ st.cur = <<>> /\ st.aq # <<>>
                    THEN [st EXCEPT !.cur = <<Head(st.aq)>>, !.aq = Tail(st.aq)]
                    ELSE st
             st2 == IF CanSend(st1.aq)
                    THEN [st1 EXCEPT !.txq[n].queued = TRUE,
                                     !.aq = Append(@, TxHandleAction(st1.txq[n].id))]
                    ELSE [st1 EXCEPT !.txq[n].queued = FALSE]
         IN Sweep(st2, n + 1, time, deq_at)

_mdns_scheduler_run(st, time, ok, deq_at) ==
    LET U == {n \in 1..Len(st.txq) : ~st.txq[n].queued}
    IN IF U = {} \/ ~ok THEN st ELSE Sweep(st, SetMin(U), time, deq_at)

-----------------------------------------------------------------------------
(* One-shot searches.  The searches that are modelled ask for the PTR        *)
(* records of one service type; a result is the instance a PTR record names  *)
(* and the interface it arrived on.  started_at and sent_at are kept         *)
(* relative to the tick count like every other time, and are not followed    *)
(* further back than the comparisons of _mdns_search_run can tell apart.     *)

SearchIds == 1..MaxSearches
Callers == {1, 2}                       \* application tasks
QueryMaxResults == {0, 1, 256}          \* max_results of a query
QueryTimeouts == {0, 100}               \* timeout of a query, ms
PtrAnswers == {<<"x">>, <<"y", "z">>}    \* what the PTR answers of a response name

\* full tells that xQueueSend found the action queue full during the call
NoCall == [op |-> "", state |-> "idle", arg |-> <<>>, search |-> 0, ret |-> "",
           results |-> <<>>, matched |-> FALSE, applied |-> FALSE, full |-> FALSE]

NoSearch == [state |-> "NONE", requested |-> 0, max_results |-> 0, num_results |-> 0,
             result |-> <<>>, timeout |-> 0, started_at |-> 0, sent_at |-> 0,
             done_semaphore |-> 0, matched |-> FALSE, asked |-> {}, ended |-> 0]

\* max_results is a uint8_t parameter: the size_t of the API is converted;
\* ended counts the calls of _mdns_search_finish for the search, each of which
\* invokes the notifier and gives done_semaphore
_mdns_search_init(max_results, timeout) ==
    [NoSearch EXCEPT !.state = "INIT",
                     !.requested = max_results,
                     !.max_results = max_results % 256,
                     !.timeout = timeout,
                     !.sent_at = 0 - (SEARCH_RESEND_MS + TIMER_PERIOD_MS)]

_mdns_search_free(s, id) == [s EXCEPT !.searches[id] = NoSearch]

\* An action may name a search that has been freed.  Its pointer dangles: the
\* write goes to memory nobody reads, or, when the address has been given to a
\* later search (QueryStart takes any free address), to that search.
_mdns_search_finish(s, id) ==
    IF s.searches[id].state = "NONE" THEN s
    ELSE [s EXCEPT !.searches[id].state = "OFF",
                   !.searches[id].done_semaphore = 1,
                   !.searches[id].ended = @ + 1,
                   !.search_once = SelectSeq(@, LAMBDA x : x # id)]

_mdns_search_add(s, id) ==
    IF s.searches[id].state = "NONE" THEN s
    ELSE [s EXCEPT !.search_once = <<id>> \o @]

\* every search of the list, OFF or not, that holds max_results results
_mdns_search_finish_done(s) ==
    LET full == {id \in SearchIds :
                    /\ \E n \in 1..Len(s.search_once) : s.search_once[n] = id
                    /\ s.searches[id].max_results # 0
                    /\ s.searches[id].num_results >= s.searches[id].max_results}
    IN [s EXCEPT !.search_once = SelectSeq(@, LAMBDA x : x \notin full),
                 !.searches = [id \in SearchIds |->
                                  IF id \in full
                                  THEN [@[id] EXCEPT !.state = "OFF", !.done_semaphore = 1,
                                                     !.ended = @ + 1]
                                  ELSE @[id]]]

\* the first search of the list that is not OFF (all searches ask for the
\* same PTR name); 0 when there is none
_mdns_search_find_from(s, list) ==
    LET on == {n \in 1..Len(list) : s.searches[list[n]].state # "OFF"}
    IN IF on = {} THEN 0 ELSE list[SetMin(on)]

_mdns_search_result_add_ptr(s, e, id, instance, i, j) ==
    LET x == s.searches[id]
        r == [tcpip_if |-> i, ip_protocol |-> j, instance_name |-> instance]
    IN IF \E n \in 1..Len(x.result) : x.result[n] = r THEN s
       ELSE IF x.max_results = 0 \/ x.num_results < x.max_results
       THEN (IF e.ok
             THEN [s EXCEPT !.searches[id].result = <<r>> \o @,
                            !.searches[id].num_results = (@ + 1) % 256]
             ELSE s)
       ELSE s

\* the PTR records of a response, in the order of the packet
RECURSIVE ParsePtrRecords(_, _, _, _, _)
ParsePtrRecords(s, e, i, j, records) ==
    IF records = <<>> THEN s
    ELSE LET id == _mdns_search_find_from(s, s.search_once)
             s1 == IF id = 0 THEN s
                   ELSE _mdns_search_result_add_ptr(
                            [s EXCEPT !.searches[id].matched = TRUE],
                            e, id, Head(records), i, j)
         IN ParsePtrRecords(s1, e, i, j, Tail(records))

\* the question goes out on every PCB that is ready and past PCB_INIT
_mdns_search_send(s, id) ==
    IF \A n \in 1..Len(s.search_once) : s.search_once[n] # id THEN s
    ELSE LET on == {k \in PCBs : /\ mdns_is_netif_ready(s, k[1], k[2])
                                  /\ PcbStateNum[s.pcbs[k].state] > PcbStateNum["INIT"]}
         IN [s EXCEPT !.searches[id].asked = on,
                      !.hist.dup_tx = @ \/ \E k \in on : s.pcbs[k].state = "DUP"]

SearchAction(type, id) == [NoAction EXCEPT !.type = type, !.search = id]

\* The loop of _mdns_search_run over the list from position n on; st holds the
\* searches and the action queue.
RECURSIVE _mdns_search_run(_, _)
_mdns_search_run(st, n) ==
    IF n > Len(st.search_once) THEN st
    ELSE LET id == st.search_once[n]
             x == st.searches[id]
             st1 ==
                IF x.state = "OFF" THEN st
                ELSE IF 0 > x.started_at + x.timeout
                THEN (IF CanSend(st.aq)
                      THEN [st EXCEPT !.searches[id].state = "OFF",
                                      !.aq = Append(@, SearchAction("SEARCH_END", id))]
                      ELSE [st EXCEPT !.searches[id].state = "RUNNING"])
                ELSE IF x.state = "INIT" \/ (0 - x.sent_at) > SEARCH_RESEND_MS
                THEN (IF CanSend(st.aq)
                      THEN [st EXCEPT !.searches[id].state = "RUNNING",
                                      !.searches[id].sent_at = 0,
                                      !.aq = Append(@, SearchAction("SEARCH_SEND", id))]
                      ELSE [st EXCEPT !.searches[id].state = "RUNNING",
                                      !.searches[id].sent_at = 0 - SEARCH_RESEND_MS])
                ELSE st
         IN _mdns_search_run(st1, n + 1)

ElapseSearches(ss, d) ==
    [id \in SearchIds |->
        IF ss[id].state = "NONE" THEN ss[id]
        ELSE [ss[id] EXCEPT
                !.started_at = SetMax({@ - d, 0 - (ss[id].timeout + TIMER_PERIOD_MS)}),
                !.sent_at = SetMax({@ - d, 0 - (SEARCH_RESEND_MS + TIMER_PERIOD_MS)})]]

-----------------------------------------------------------------------------
(* Received packets.  A received packet is described by what the parser     *)
(* finds in it: whether its flags have the QR bit (a response), whether they *)
(* are exactly QR|AA, whether it carries a question for `host` (of type ANY  *)
(* when `probe`, of type A otherwise), whether its answer section is         *)
(* non-empty, how the address of an A record for `host` compares with the    *)
(* addresses of the interfaces, and the instances that its PTR answers name  *)
(* for the service type that is searched.                                    *)

_mdns_name_is_ours(s, host) ==
    ~_str_null_or_empty(host) /\ ~_str_null_or_empty(s.hostname) /\ host = s.hostname

_mdns_name_is_selfhosted(s, host) ==
    ~_str_null_or_empty(s.hostname) /\ host = s.hostname

_mdns_remap_self_service_hostname(s, old_hostname, new_hostname) ==
    [s EXCEPT !.services =
        [n \in 1..Len(s.services) |->
            IF s.services[n].hostname = old_hostname
            THEN [s.services[n] EXCEPT !.hostname = new_hostname]
            ELSE s.services[n]]]

\* _mdns_remove_scheduled_answer: the answer leaves the distributed packets
\* that wait for this PCB
_mdns_remove_scheduled_answer(s, i, j, type, service) ==
    [s EXCEPT !.txq =
        [n \in 1..Len(s.txq) |->
            IF s.txq[n].tcpip_if = i /\ s.txq[n].ip_protocol = j /\ s.txq[n].distributed
            THEN [s.txq[n] EXCEPT !.answers =
                    LET A == {m \in 1..Len(@) : @[m].type = type /\ @[m].service = service}
                    IN IF A = {} THEN @
                       ELSE SubSeq(@, 1, SetMin(A) - 1) \o SubSeq(@, SetMin(A) + 1, Len(@))]
            ELSE s.txq[n]]]

\* _mdns_question_matches for a PTR question that names no instance
_mdns_question_matches(svc, service) ==
    svc.service = service /\ svc.instance = <<>>

\* the loop over the services for a PTR question in
\* _mdns_create_answer_from_parsed_packet: the services of the type that is
\* asked for, without those that a record of the packet already gives
PtrQuestionServices(s, service, records) ==
    SelectSeq(s.services,
              LAMBDA svc :
                 /\ _mdns_service_match(svc, service, <<>>)
                 /\ ~\E n \in 1..Len(records) :
                       /\ svc.instance # <<>>
                       /\ records[n].host # <<>>
                       /\ svc.service = records[n].service
                       /\ _mdns_instance_name_match(s, svc.instance, records[n].host)
                       /\ records[n].ttl > MDNS_ANSWER_PTR_TTL \div 2)

\* _mdns_create_answer_from_service for a PTR question, which is shared
RECURSIVE AnswerFromServices(_, _, _)
AnswerFromServices(s, p, svcs) ==
    IF svcs = <<>> THEN p
    ELSE LET svc == Head(svcs)
             host == mdns_get_host_item(s, svc.hostname)
             is_delegated == host # "self"
             rest == IF is_delegated THEN "additional" ELSE "answers"
             p1 == [p EXCEPT !.answers = _mdns_alloc_answer(@, "PTR", svc.id, "none")]
             p2 == [p1 EXCEPT ![rest] = _mdns_alloc_answer(@, "SRV", svc.id, "none")]
             p3 == [p2 EXCEPT ![rest] = _mdns_alloc_answer(@, "TXT", svc.id, "none")]
             p4 == [p3 EXCEPT !.additional =
                       _mdns_alloc_answer(_mdns_alloc_answer(@, "A", svc.id, host),
                                          "AAAA", svc.id, host)]
         IN AnswerFromServices(s, p4, Tail(svcs))

\* probe: the packet asks for our hostname with type ANY; host_q: a question
\* for the hostname is left; ptr_q: the service type of the PTR question that
\* is left, or ""; records: the PTR records of the packet that name a service
\* of ours
_mdns_create_answer_from_parsed_packet(s, e, i, j, probe, host_q, ptr_q, records) ==
    LET p0 == [_mdns_alloc_packet_default(AllocId(s, {}), i, j) EXCEPT
                  !.flags = "QR_AUTHORITATIVE"]
        p1 == IF ptr_q = "" THEN p0
              ELSE AnswerFromServices(s, p0, PtrQuestionServices(s, ptr_q, records))
        packet == IF ~host_q THEN p1
                  ELSE [p1 EXCEPT !.answers =
                          _mdns_append_host(@, mdns_get_host_item(s, s.hostname))]
        shared == IF host_q THEN ~probe ELSE TRUE
        built == [s EXCEPT !.hist.reply = packet.answers]
    IN IF ~e.ok \/ packet.answers = <<>> THEN s
       ELSE IF shared
       THEN [_mdns_schedule_tx_packet(built, packet,
                                      SHARE_BASE_MS + s.share_step * SHARE_STEP_MS)
               EXCEPT !.share_step = (s.share_step + 1) % (SHARE_STEP_MASK + 1)]
       ELSE _mdns_dispatch_tx_packet(built, packet, FALSE)

\* the A-record branch of mdns_parse_packet for a self-hosted name
\* a parser that takes every lost collision of a probing PCB as a failed probe
ParseARecord_any(s, e, i, j, rx, probe) ==
    LET k == <<i, j>>
        pcb == s.pcbs[k]
        new_host == _mdns_mangle_name(s.hostname)
        s1 == [_mdns_remap_self_service_hostname(
                  [s EXCEPT !.pcbs[k].failed_probes = (@ + 1) % 256], s.hostname, new_host)
                EXCEPT !.hostname = new_host]
    IN IF rx.a = "dup" THEN _mdns_dup_interface(s, e, i)
       ELSE IF rx.a # "lose" THEN s
       ELSE IF pcb.probe_running
       THEN _mdns_restart_all_pcbs(s1, e)
       ELSE _mdns_init_pcb_probe(s, e, i, j, <<>>, TRUE)

ParseARecord(s, e, i, j, rx, probe) ==
    LET k == <<i, j>>
        pcb == s.pcbs[k]
        new_host == _mdns_mangle_name(s.hostname)
        s1 == [_mdns_remap_self_service_hostname(
                  [s EXCEPT !.pcbs[k].failed_probes = (@ + 1) % 256], s.hostname, new_host)
                EXCEPT !.hostname = new_host]
    IN IF rx.a = "dup" THEN _mdns_dup_interface(s, e, i)
       ELSE IF rx.a # "lose" THEN s
       ELSE IF pcb.probe_running
       THEN (IF probe \/ rx.authoritative THEN _mdns_restart_all_pcbs(s1, e) ELSE s)
       ELSE _mdns_init_pcb_probe(s, e, i, j, <<>>, TRUE)

(* Browses.  A browse item holds its results, head first; a result is told  *)
(* by its address (id).  Service and protocol names are compared as they    *)
(* are; instance and host names are sequences of characters.  The port of   *)
(* a result is left out.                                                     *)

BrowseKeys == {[service |-> "_http", proto |-> "_tcp"],
               [service |-> "_http", proto |-> "_udp"]}

ResultIds == 1..MaxResults

NoResult == [id |-> 0, tcpip_if |-> 0, instance_name |-> <<>>, hostname |-> <<>>,
             txt |-> <<>>, ttl |-> 0, addr |-> <<>>]

BrowseKey(b) == [service |-> b.service, proto |-> b.proto]

\* the address that malloc gives a new result: one that no result of a browse has
FreeResultIds(bs) ==
    ResultIds \ UNION {{bs[n].result[m].id : m \in 1..Len(bs[n].result)} : n \in 1..Len(bs)}

_mdns_result_update_ttl(r_ttl, ttl) == IF r_ttl < ttl THEN r_ttl ELSE ttl

\* r->ttl after the "if (r->ttl != ttl)" block of the _mdns_browse_result_add_* functions
ResultTtl(r_ttl, ttl) ==
    IF r_ttl = ttl THEN r_ttl
    ELSE IF r_ttl = 0 THEN ttl
    ELSE _mdns_result_update_ttl(r_ttl, ttl)

_mdns_add_browse_result(sync, id) ==
    IF InSeq(id, sync.result) THEN sync ELSE [sync EXCEPT !.result = <<id>> \o @]

\* the index in the list bs of the browse that the record is for, 0 for NULL
_mdns_browse_find_from(bs, rec, tcpip_if) ==
    LET N == IF rec.type \in {"SRV", "TXT"}
             THEN {n \in 1..Len(bs) : bs[n].service = rec.service /\ bs[n].proto = rec.proto}
             ELSE IF rec.type = "A"
             THEN {n \in 1..Len(bs) :
                      \E m \in 1..Len(bs[n].result) :
                          /\ bs[n].result[m].tcpip_if = tcpip_if
                          /\ ~_str_null_or_empty(bs[n].result[m].hostname)
                          /\ strcasecmp(rec.host, bs[n].result[m].hostname)}
             ELSE {}
    IN IF N = {} THEN 0 ELSE SetMin(N)

\* the results of the list that a SRV or TXT record for the instance is about
ResultsOfInstance(results, instance, tcpip_if) ==
    {m \in 1..Len(results) :
        /\ results[m].tcpip_if = tcpip_if
        /\ ~_str_null_or_empty(results[m].instance_name)
        /\ strcasecmp(instance, results[m].instance_name)}

_mdns_copy_address_in_previous_result(results, r) ==
    LET M == {m \in 1..Len(results) :
                 /\ ~_str_null_or_empty(results[m].hostname)
                 /\ ~_str_null_or_empty(r.hostname)
                 /\ strcasecmp(results[m].hostname, r.hostname)
                 /\ results[m].addr # <<>>
                 /\ r.addr = <<>>}
    IN IF M = {} THEN r.addr ELSE results[SetMin(M)].addr

\* st holds the browse list and the mdns_browse_sync_t of the packet
_mdns_browse_result_add_srv(st, e, n, hname, instance, tcpip_if, ttl) ==
    LET b == st.browse[n]
        M == ResultsOfInstance(b.result, instance, tcpip_if)
        m == SetMin(M)
        r == b.result[m]
        renamed == _str_null_or_empty(r.hostname) \/ ~strcasecmp(hname, r.hostname)
        r1 == IF renamed
              THEN [r EXCEPT !.hostname = hname,
                             !.addr = _mdns_copy_address_in_previous_result(
                                         b.result, [r EXCEPT !.hostname = hname])]
              ELSE r
        r2 == [r1 EXCEPT !.ttl = ResultTtl(@, ttl)]
        sync1 == IF renamed THEN _mdns_add_browse_result(st.sync, r.id) ELSE st.sync
        sync2 == IF r2.ttl # r.ttl THEN _mdns_add_browse_result(sync1, r.id) ELSE sync1
        free == FreeResultIds(st.browse)
        new == [NoResult EXCEPT !.id = SetMin(free), !.tcpip_if = tcpip_if,
                                !.instance_name = instance, !.hostname = hname,
                                !.ttl = ttl]
    IN IF st.sync.browse # BrowseKey(b) THEN st
       ELSE IF M # {}
       THEN [st EXCEPT !.browse[n].result[m] = r2, !.sync = sync2]
       ELSE IF ~e.ok \/ free = {} THEN st
       ELSE [st EXCEPT !.browse[n].result = <<new>> \o @,
                       !.sync = _mdns_add_browse_result(@, new.id)]

is_txt_item_in_list(item, txt_list) ==
    LET I == {n \in 1..Len(txt_list) : txt_list[n].key = item.key}
    IN I # {} /\ txt_list[SetMin(I)].value = item.value

_mdns_browse_result_add_txt(st, e, n, instance, txt, tcpip_if, ttl) ==
    LET b == st.browse[n]
        M == ResultsOfInstance(b.result, instance, tcpip_if)
        m == SetMin(M)
        r == b.result[m]
        txt_changed == /\ r.txt # <<>>
                       /\ \/ Len(txt) # Len(r.txt)
                          \/ \E x \in 1..Len(txt) : ~is_txt_item_in_list(txt[x], r.txt)
        r1 == [r EXCEPT !.txt = txt, !.ttl = ResultTtl(@, ttl)]
        should_update == txt_changed \/ r1.ttl # r.ttl
        free == FreeResultIds(st.browse)
        new == [NoResult EXCEPT !.id = SetMin(free), !.tcpip_if = tcpip_if,
                                !.instance_name = instance, !.txt = txt, !.ttl = ttl]
    IN IF st.sync.browse # BrowseKey(b) THEN st
       ELSE IF M # {}
       THEN [st EXCEPT !.browse[n].result[m] = r1,
                       !.sync = IF should_update THEN _mdns_add_browse_result(@, r.id)
                                ELSE @]
       ELSE IF ~e.ok \/ free = {} THEN st
       ELSE [st EXCEPT !.browse[n].result = <<new>> \o @,
                       !.sync = _mdns_add_browse_result(@, new.id)]

\* the first result of the host that has not got the address gets it
_mdns_browse_result_add_ip(st, e, n, hname, ip, tcpip_if, ttl) ==
    LET b == st.browse[n]
        M == {m \in 1..Len(b.result) :
                 /\ b.result[m].tcpip_if = tcpip_if
                 /\ ~_str_null_or_empty(b.result[m].hostname)
                 /\ strcasecmp(hname, b.result[m].hostname)
                 /\ ~InSeq(ip, b.result[m].addr)}
        m == SetMin(M)
        r == b.result[m]
    IN IF st.sync.browse # BrowseKey(b) \/ M = {} \/ ~e.ok THEN st
       ELSE [st EXCEPT !.browse[n].result[m] =
                           [r EXCEPT !.addr = <<ip>> \o @, !.ttl = ResultTtl(@, ttl)],
                       !.sync = _mdns_add_browse_result(@, r.id)]

\* the record loop of mdns_parse_packet for the records that are not about
\* our names
RECURSIVE BrowseRecords(_, _, _, _)
BrowseRecords(st, e, tcpip_if, records) ==
    IF records = <<>> THEN st
    ELSE LET rec == Head(records)
             n == _mdns_browse_find_from(st.browse, rec, tcpip_if)
             st1 == IF n # 0 /\ st.sync.browse = NoBrowse
                    THEN [st EXCEPT !.sync.browse = BrowseKey(st.browse[n])]
                    ELSE st
             st2 == IF n = 0 THEN st1
                    ELSE IF rec.type = "SRV"
                    THEN _mdns_browse_result_add_srv(st1, e, n, rec.target, rec.host,
                                                     tcpip_if, rec.ttl)
                    ELSE IF rec.type = "TXT"
                    THEN _mdns_browse_result_add_txt(st1, e, n, rec.host, rec.txt,
                                                     tcpip_if, rec.ttl)
                    ELSE _mdns_browse_result_add_ip(st1, e, n, rec.host, rec.ip,
                                                    tcpip_if, rec.ttl)
         IN BrowseRecords(st2, e, tcpip_if, Tail(records))

\* what mdns_parse_packet does for the active browses: the records are added
\* to the results, and the results that changed go to the service task in a
\* BROWSE_SYNC action (_mdns_sync_browse_action), which is lost when the action
\* queue is full
ParseBrowseRecords(s, e, i, j, rx) ==
    LET st == BrowseRecords([browse |-> s.browse, sync |-> NoSync], e, i, rx.records)
        a == [NoAction EXCEPT !.type = "BROWSE_SYNC", !.sync = st.sync]
    IN IF ~rx.qr \/ rx.records = <<>> THEN s
       ELSE [s EXCEPT !.browse = st.browse,
                      !.aq = IF st.sync.result # <<>> /\ e.ok /\ QueueHasRoom(@, s.aq_len)
                             THEN Append(@, a) ELSE @]

\* what the notifier is given
Told(r) == [instance_name |-> r.instance_name, hostname |-> r.hostname, txt |-> r.txt,
            ttl |-> r.ttl, addr |-> r.addr]

\* the last two calls of the notifier for a result
LastTwo(told, d) == IF told = <<>> THEN <<d>> ELSE <<told[Len(told)], d>>

\* The results of the sync from the head on.  A result that is no longer in
\* the list of the browse has been freed: the notifier gets the dangling
\* pointer.
RECURSIVE _mdns_browse_sync(_, _, _)
_mdns_browse_sync(s, key, ids) ==
    IF ids = <<>> THEN s
    ELSE LET id == Head(ids)
             N == {n \in 1..Len(s.browse) : BrowseKey(s.browse[n]) = key}
             n == SetMin(N)
             M == IF N = {} THEN {}
                  ELSE {m \in 1..Len(s.browse[n].result) : s.browse[n].result[m].id = id}
             m == SetMin(M)
             r == s.browse[n].result[m]
             s1 == IF M = {}
                   THEN [s EXCEPT !.hist.told[id] =
                                     LastTwo(@, [r |-> Told(NoResult), freed |-> TRUE])]
                   ELSE IF r.ttl = 0
                   THEN [s EXCEPT !.hist.told[id] = <<>>,
                                  !.browse[n].result = SubSeq(@, 1, m - 1)
                                                       \o SubSeq(@, m + 1, Len(@))]
                   ELSE [s EXCEPT !.hist.told[id] =
                                     LastTwo(@, [r |-> Told(r), freed |-> FALSE])]
         IN _mdns_browse_sync(s1, key, Tail(ids))

\* a finish that goes by the service name alone
_mdns_browse_finish_service(s, key) ==
    [s EXCEPT !.browse = SelectSeq(@, LAMBDA b : b.service # key.service)]

_mdns_browse_finish(s, key) ==
    [s EXCEPT !.browse = SelectSeq(@, LAMBDA b : BrowseKey(b) # key)]

\* _mdns_browse_send asks on the PCBs that _mdns_search_send_pcb accepts
_mdns_browse_add(s, key) ==
    LET found == \E n \in 1..Len(s.browse) : BrowseKey(s.browse[n]) = key
        on == {k \in PCBs : /\ mdns_is_netif_ready(s, k[1], k[2])
                            /\ PcbStateNum[s.pcbs[k].state] > PcbStateNum["INIT"]}
        item == [service |-> key.service, proto |-> key.proto, result |-> <<>>]
    IN [s EXCEPT !.browse = IF found THEN @ ELSE <<item>> \o @,
                 !.hist.dup_tx = @ \/ \E k \in on : s.pcbs[k].state = "DUP"]

\* a parser that answers the questions whatever the state of the PCB and the
\* outcome of a conflict
mdns_parse_packet_any(srv, e, i, j, rx) ==
    LET s == ParseBrowseRecords(srv, e, i, j, rx)
        k == <<i, j>>
        ours == _mdns_name_is_ours(s, rx.host)
        questions == rx.questions /\ ours
        probe == questions /\ rx.probe
        ptr_q == rx.qptr # "" /\ _mdns_get_service_item(s, rx.qptr, <<>>) # {}
        known == rx.a # "none" /\ ours /\ questions /\ ~probe
        collide == rx.a # "none" /\ ours /\ ~known /\ _mdns_name_is_selfhosted(s, rx.host)
        \* the PTR record of the packet for one of our services
        I == IF rx.known = <<>> \/ rx.qptr = "" THEN {}
             ELSE _mdns_get_service_item_instance(s, rx.known, rx.qptr, <<>>)
        service == s.services[SetMin(I)]
        removed == /\ I # {} /\ (questions \/ ptr_q) /\ ~probe
                   /\ ptr_q /\ _mdns_question_matches(service, rx.qptr)
        records == IF I = {} THEN <<>>
                   ELSE <<[host |-> rx.known, service |-> rx.qptr, ttl |-> rx.ttl]>>
        sp == IF I # {} /\ ~((questions \/ ptr_q) /\ ~probe)
                 /\ rx.ttl > MDNS_ANSWER_PTR_TTL \div 2
              THEN _mdns_remove_scheduled_answer(s, i, j, "PTR", service.id) ELSE s
        s0 == IF rx.qr THEN ParsePtrRecords(sp, e, i, j, rx.ptr) ELSE sp
        s1 == IF collide THEN ParseARecord(s0, e, i, j, rx, probe) ELSE s0
        s2 == IF rx.answers /\ rx.authoritative THEN _mdns_search_finish_done(s1) ELSE s1
        do_not_reply == collide /\ rx.a = "lose"
        host_q == questions /\ ~known
        ptr_left == ptr_q /\ ~removed
    IN IF rx.questions /\ rx.qptr = "" /\ ~rx.answers /\ _str_null_or_empty(s.hostname) THEN s
       ELSE IF (rx.a # "none" \/ rx.ptr # <<>> \/ rx.known # <<>>) /\ rx.data_len = 0 THEN s
       ELSE IF (rx.questions \/ rx.qptr # "") /\ ~(questions \/ ptr_q)
               /\ ~rx.answers /\ rx.known = <<>> THEN s
       ELSE IF collide /\ rx.a = "dup" THEN s1
       ELSE IF host_q \/ ptr_left
       THEN _mdns_create_answer_from_parsed_packet(
                s2, e, i, j, probe, host_q, IF ptr_left THEN rx.qptr ELSE "", records)
       ELSE s2

mdns_parse_packet(srv, e, i, j, rx) ==
    LET s == ParseBrowseRecords(srv, e, i, j, rx)
        k == <<i, j>>
        ours == _mdns_name_is_ours(s, rx.host)
        questions == rx.questions /\ ours
        probe == questions /\ rx.probe
        ptr_q == rx.qptr # "" /\ _mdns_get_service_item(s, rx.qptr, <<>>) # {}
        known == rx.a # "none" /\ ours /\ questions /\ ~probe
        collide == rx.a # "none" /\ ours /\ ~known /\ _mdns_name_is_selfhosted(s, rx.host)
        \* the PTR record of the packet for one of our services
        I == IF rx.known = <<>> \/ rx.qptr = "" THEN {}
             ELSE _mdns_get_service_item_instance(s, rx.known, rx.qptr, <<>>)
        service == s.services[SetMin(I)]
        removed == /\ I # {} /\ (questions \/ ptr_q) /\ ~probe
                   /\ ptr_q /\ _mdns_question_matches(service, rx.qptr)
        records == IF I = {} THEN <<>>
                   ELSE <<[host |-> rx.known, service |-> rx.qptr, ttl |-> rx.ttl]>>
        sp == IF I # {} /\ ~((questions \/ ptr_q) /\ ~probe)
                 /\ rx.ttl > MDNS_ANSWER_PTR_TTL \div 2
              THEN _mdns_remove_scheduled_answer(s, i, j, "PTR", service.id) ELSE s
        s0 == IF rx.qr THEN ParsePtrRecords(sp, e, i, j, rx.ptr) ELSE sp
        s1 == IF collide THEN ParseARecord(s0, e, i, j, rx, probe) ELSE s0
        s2 == IF rx.answers /\ rx.authoritative THEN _mdns_search_finish_done(s1) ELSE s1
        do_not_reply == collide /\ rx.a = "lose"
        host_q == questions /\ ~known
        ptr_left == ptr_q /\ ~removed
    IN IF rx.questions /\ rx.qptr = "" /\ ~rx.answers /\ _str_null_or_empty(s.hostname) THEN s
       ELSE IF (rx.a # "none" \/ rx.ptr # <<>> \/ rx.known # <<>>) /\ rx.data_len = 0 THEN s
       ELSE IF (rx.questions \/ rx.qptr # "") /\ ~(questions \/ ptr_q)
               /\ ~rx.answers /\ rx.known = <<>> THEN s
       ELSE IF collide /\ rx.a = "dup" THEN s1
       ELSE IF ~do_not_reply /\ PcbStateNum[s2.pcbs[k].state] > PcbStateNum["PROBE_3"]
               /\ (host_q \/ ptr_left)
       THEN _mdns_create_answer_from_parsed_packet(
                s2, e, i, j, probe, host_q, IF ptr_left THEN rx.qptr ELSE "", records)
       ELSE s2

-----------------------------------------------------------------------------
(* Actions of the service task and calls of the API *)

\* The action of a call that is followed gives action_sema and is noted as
\* applied.  The caller of PostHostnameSet (caller 0) is the only task in a
\* call of its behaviours; its xSemaphoreTake follows the give at once and is
\* part of the step.
Given(s, caller) ==
    IF caller = 0 THEN s
    ELSE [s EXCEPT !.action_sema = 1, !.hist.applied = @ \cup {caller}]

ExecuteHostnameSet(s, e, new_hostname, caller) ==
    Given(_mdns_restart_all_pcbs(
              [_mdns_remap_self_service_hostname(
                   _mdns_send_bye_all_pcbs_no_instance(s, TRUE), s.hostname, new_hostname)
                  EXCEPT !.hostname = new_hostname], e),
          caller)

_hostname_is_ours(s, name) ==
    \/ ~_str_null_or_empty(s.hostname) /\ strcasecmp(name, s.hostname)
    \/ \E n \in 1..Len(s.hosts) : strcasecmp(name, s.hosts[n])

_mdns_delegate_hostname_add(s, e, name) ==
    IF _hostname_is_ours(s, name) \/ ~e.ok THEN s
    ELSE [s EXCEPT !.hosts = <<name>> \o @]

ExecuteDelegateHostnameAdd(s, e, name, caller) ==
    Given(_mdns_delegate_hostname_add(s, e, name), caller)

\* the services of the host go, from the head of the list on, then the host
RECURSIVE _mdns_delegate_hostname_remove(_, _)
_mdns_delegate_hostname_remove(s, name) ==
    LET I == {n \in 1..Len(s.services) : strcasecmp(s.services[n].hostname, name)}
        n == SetMin(I)
        H == {m \in 1..Len(s.hosts) : strcasecmp(name, s.hosts[m])}
    IN IF I # {}
       THEN _mdns_delegate_hostname_remove(
               _mdns_remove_scheduled_service_packets(
                  [_mdns_send_bye(s, <<s.services[n].id>>, FALSE)
                      EXCEPT !.services = SubSeq(@, 1, n - 1) \o SubSeq(@, n + 1, Len(@))],
                  s.services[n]),
               name)
       ELSE IF H # {}
       THEN [s EXCEPT !.hosts = SubSeq(@, 1, SetMin(H) - 1)
                                  \o SubSeq(@, SetMin(H) + 1, Len(@))]
       ELSE s

\* a handler that takes the packet of the action wherever it stands in the queue
ExecuteTxHandle_any(s, e, id) ==
    LET I == {n \in 1..Len(s.txq) : s.txq[n].id = id /\ s.txq[n].queued}
        n == SetMin(I)
    IN IF I # {}
       THEN _mdns_tx_handle_packet(
               [s EXCEPT !.txq = SubSeq(@, 1, n - 1) \o SubSeq(@, n + 1, Len(@))], e,
               [s.txq[n] EXCEPT !.queued = FALSE])
       ELSE s

\* a handler that does not compare the head with the packet of the action
ExecuteTxHandle_head(s, e, id) ==
    IF s.txq # <<>> /\ s.txq[1].queued
    THEN _mdns_tx_handle_packet([s EXCEPT !.txq = Tail(@)], e,
                                [s.txq[1] EXCEPT !.queued = FALSE])
    ELSE s

ExecuteTxHandle(s, e, id) ==
    IF s.txq # <<>> /\ s.txq[1].id = id /\ s.txq[1].queued
    THEN _mdns_tx_handle_packet([s EXCEPT !.txq = Tail(@)], e,
                                [s.txq[1] EXCEPT !.queued = FALSE])
    ELSE s

\* The protocol of a service is not modelled: every service is "_tcp".  A
\* NULL string argument is <<>>.
mdns_service_exists(s, service, hname) ==
    _mdns_get_service_item(s, service, hname) # {}

\* the address of a new service item
SvcItemId(s) ==
    LET free == {n \in 1..Len(SvcItems) :
                    \A m \in 1..Len(s.services) : s.services[m].id # SvcItems[n]}
    IN SvcItems[SetMin(free)]

mdns_service_add_for_host(s, e, instance, service, host) ==
    LET hname == IF host # <<>> THEN host ELSE s.hostname
        item == [id |-> SvcItemId(s), service |-> service, instance |-> instance,
                 hostname |-> hname]
    IN IF \/ _str_null_or_empty(s.hostname)
          \/ Len(s.services) >= MaxServices
          \/ _mdns_get_service_item_instance(s, instance, service, hname) # {}
          \/ ~e.ok
       THEN s
       ELSE _mdns_probe_all_pcbs([s EXCEPT !.services = <<item>> \o @], e,
                                 <<item.id>>, FALSE, FALSE)

mdns_service_remove_for_host(s, instance, service, host) ==
    LET hname == IF host # <<>> THEN host ELSE s.hostname
        I == _mdns_get_service_item_instance(s, instance, service, hname)
        n == SetMin(I)
    IN IF I = {} THEN s
       ELSE _mdns_remove_scheduled_service_packets(
               [_mdns_send_bye(s, <<s.services[n].id>>, FALSE)
                   EXCEPT !.services = SubSeq(@, 1, n - 1) \o SubSeq(@, n + 1, Len(@))],
               s.services[n])

mdns_service_instance_name_set_for_host(s, e, instance_old, service, host, instance) ==
    LET hname == IF host # <<>> THEN host ELSE s.hostname
        I == _mdns_get_service_item_instance(s, instance_old, service, hname)
        n == SetMin(I)
        s1 == IF s.services[n].instance # <<>>
              THEN _mdns_send_bye(s, <<s.services[n].id>>, FALSE) ELSE s
    IN IF I = {} \/ _str_null_or_empty(instance) THEN s
       ELSE IF ~e.ok THEN [s1 EXCEPT !.services[n].instance = <<>>]
       ELSE _mdns_probe_all_pcbs([s1 EXCEPT !.services[n].instance = instance], e,
                                 <<s.services[n].id>>, FALSE, FALSE)

\* _mdns_announce_pcb on every PCB, in the order of the loops
RECURSIVE AnnouncePcbs(_, _, _, _, _)
AnnouncePcbs(s, e, todo, svcs, include_ip) ==
    IF todo = <<>> THEN s
    ELSE AnnouncePcbs(_mdns_announce_pcb(s, e, Head(todo)[1], Head(todo)[2], svcs, include_ip),
                      e, Tail(todo), svcs, include_ip)

_mdns_announce_all_pcbs(s, e, svcs, include_ip) ==
    AnnouncePcbs(s, e, ALL_PCBS, svcs, include_ip)

\* mdns_service_txt_set_for_host with num_items TXT items: the server after
\* the call, what the call returns, and the mutex as the call leaves it (the
\* TXT items themselves are not part of the packets of the model)
mdns_service_txt_set_for_host(s, e, instance, service, host, num_items) ==
    LET hname == IF host # <<>> THEN host ELSE s.hostname
        I == _mdns_get_service_item_instance(s, instance, service, hname)
    IN IF s.services = <<>> \/ service = ""
       THEN [srv |-> s, ret |-> "ESP_ERR_INVALID_ARG", semaphore |-> 1]
       ELSE IF I = {}
       THEN [srv |-> s, ret |-> "ESP_ERR_NOT_FOUND", semaphore |-> 1]
       ELSE IF num_items > 0 /\ ~e.ok
       THEN [srv |-> s, ret |-> "ESP_ERR_NO_MEM", semaphore |-> 0]
       ELSE [srv |-> _mdns_announce_all_pcbs(s, e, <<s.services[SetMin(I)].id>>, FALSE),
             ret |-> "ESP_OK", semaphore |-> 1]

-----------------------------------------------------------------------------
(* The state machine *)

\* what the last step, when it was the handler of a TX_HANDLE action, met and
\* did: the packet the action refers to, the head of the tx queue and its
\* queued flag (0 and FALSE for an empty queue), and the packets it took from
\* the queue and transmitted
NoTx == [handled |-> <<>>, head |-> 0, queued |-> FALSE, sent |-> <<>>]

\* zeroed: the step has taken failed_probes of the PCB from above 0 to 0
NoChange == [from |-> "", op |-> "", zeroed |-> FALSE]

Stamps(txq, h) ==
    {txq[n].stamp : n \in 1..Len(txq)} \cup {h.last_tx[n].stamp : n \in 1..Len(h.last_tx)}

Srv == [now |-> 0, hostname |-> hostname, services |-> services, pcbs |-> pcbs,
        txq |-> tx_queue, share_step |-> share_step,
        hist |-> [hist EXCEPT !.bye = <<>>, !.reply = <<>>, !.tx = NoTx],
        stamp |-> Cardinality(Stamps(tx_queue, hist)) + 1, avoid |-> {},
        search_once |-> search_once, searches |-> searches,
        action_sema |-> action_sema, hosts |-> hosts, browse |-> browse,
        aq |-> action_queue, aq_len |-> action_queue_len]

\* the addresses that waiting TX_HANDLE actions hold, of packets that a handler
\* may free
Stale ==
    {action_queue[n].packet : n \in {m \in 1..Len(action_queue) :
                                        action_queue[m].type = "TX_HANDLE"}}

\* what the allocator and esp_random() may answer during one handler; a
\* handler that finds the memory exhausted is one of the events of the
\* environment that budget counts
Envs == [rnd : [PCBs -> RandSet], ok : IF oom /\ budget > 0 THEN BOOLEAN ELSE {TRUE},
         reuse : IF Stale = {} THEN {TRUE} ELSE BOOLEAN]

\* The history in the form that is kept: the scheduling order of the packets
\* numbered from 1, the last transmission forgotten once nothing is scheduled,
\* the time since a PCB's last transmission counted only while it probes or
\* announces.
Rank(x, S) == Cardinality({y \in S : y < x}) + 1

Kept(s, chg, rx) ==
    LET S == Stamps(s.txq, s.hist)
        last == IF s.txq = <<>> THEN <<>>
                ELSE [n \in 1..Len(s.hist.last_tx) |->
                         [s.hist.last_tx[n] EXCEPT !.stamp = Rank(@, S)]]
    IN [txq |-> [n \in 1..Len(s.txq) |-> [s.txq[n] EXCEPT !.stamp = Rank(@, S)]],
        hist |-> [s.hist EXCEPT
                    !.chg = chg,
                    !.rx = rx,
                    !.last_tx = last,
                    !.since = [k \in PCBs |->
                                  IF s.pcbs[k].state \in ProbeStates \cup AnnounceStates
                                  THEN s.hist.since[k] ELSE 0]]]

\* the handler `op` has turned the server into s; rx is the received packet
\* with the state it met, when the handler parsed one
Commit(s, op, rx) ==
    LET zeroed == [k \in PCBs |-> pcbs[k].failed_probes # 0 /\ s.pcbs[k].failed_probes = 0]
        chg == [k \in PCBs |-> IF s.pcbs[k].state # pcbs[k].state
                               THEN [from |-> pcbs[k].state, op |-> op, zeroed |-> zeroed[k]]
                               ELSE [NoChange EXCEPT !.zeroed = zeroed[k]]]
    IN /\ hostname' = s.hostname
       /\ services' = s.services
       /\ pcbs' = s.pcbs
       /\ tx_queue' = Kept(s, chg, rx).txq
       /\ share_step' = s.share_step
       /\ hist' = Kept(s, chg, rx).hist
       /\ search_once' = s.search_once
       /\ searches' = s.searches
       /\ action_sema' = s.action_sema
       /\ hosts' = s.hosts
       /\ browse' = s.browse
       /\ action_queue' = s.aq
       /\ UNCHANGED <<calls, fqdn, action_queue_len>>

\* a step that leaves the server structure alone
Untouched ==
    /\ UNCHANGED <<hostname, services, pcbs, tx_queue, share_step>>
    /\ UNCHANGED <<search_once, searches, calls, action_sema, hosts, browse, fqdn, service_semaphore, action_queue_len>>
    /\ hist' = [hist EXCEPT !.chg = [k \in PCBs |-> NoChange], !.rx = <<>>, !.bye = <<>>, !.reply = <<>>, !.tx = NoTx]

\* the application and the network hand over a new event only when the
\* service task has taken the previous ones
Settled == action_queue = <<>> /\ cur = <<>>

Post(a) ==
    /\ budget > 0
    /\ Settled
    /\ budget' = budget - 1
    /\ action_queue' = IF CanSend(action_queue) THEN Append(action_queue, a) ELSE action_queue
    /\ Untouched
    /\ UNCHANGED <<cur, oom, stall>>

\* ---------------------------------------------------------------------------
\* Names in received packets
\* ---------------------------------------------------------------------------

\* The length of the packets drawn, and the bytes they are made of: the end
\* of a name, label lengths 1 and 2, a label length above 63, the letter 'a',
\* and the first byte of a compression pointer; a pointer's second byte is
\* one of the same bytes, so offsets 0, 1 and 2 are its in-packet targets.
MaxPacketLen == 4
FqdnBytes == {0, 1, 2, 64, 97, 192}

\* "local", "arpa", "ip6", "in-addr" and "_sub" as bytes
MDNS_DEFAULT_DOMAIN == <<108, 111, 99, 97, 108>>
ARPA_STR == <<97, 114, 112, 97>>
IP6_STR == <<105, 112, 54>>
IN_ADDR_STR == <<105, 110, 45, 97, 100, 100, 114>>
MDNS_SUB_STR == <<95, 115, 117, 98>>

\* start[index] for a byte offset counted from the start of the packet
ByteAt(mem, off) == mem[off + 1]

ToLower(c) == IF c \in 65..90 THEN c + 32 ELSE c

\* strcasecmp(a, b) == 0
strcasecmp_eq(a, b) ==
    Len(a) = Len(b) /\ \A n \in 1..Len(a) : ToLower(a[n]) = ToLower(b[n])

\* strlcat(dst, src, size): the result holds at most size - 1 bytes
strlcat(dst, src, size) ==
    LET all == dst \o src
    IN  IF Len(all) < size THEN all ELSE SubSeq(all, 1, size - 1)

\* The name as _mdns_parse_fqdn resets it
NoName == [parts |-> 0, sub |-> FALSE, invalid |-> FALSE,
           host |-> <<>>, service |-> <<>>, proto |-> <<>>, domain |-> <<>>]

\* No packet is being decoded
NoFqdn == [mem |-> <<>>, packet_len |-> 0, start |-> 0, out |-> <<>>]

\* memcpy(mdns_name_ptrs[name->parts++], buf, len + 1)
NamePut(name, buf) ==
    LET n == name.parts
        put == IF n = 0 THEN [name EXCEPT !.host = buf]
               ELSE IF n = 1 THEN [name EXCEPT !.service = buf]
               ELSE IF n = 2 THEN [name EXCEPT !.proto = buf]
               ELSE [name EXCEPT !.domain = buf]
    IN  [put EXCEPT !.parts = n + 1]

\* What one label does to the name
NameLabel(name, buf) ==
    IF /\ name.parts = 1
       /\ buf[1] # 95
       /\ ~strcasecmp_eq(buf, MDNS_DEFAULT_DOMAIN)
       /\ ~strcasecmp_eq(buf, ARPA_STR)
       /\ ~strcasecmp_eq(buf, IP6_STR)
       /\ ~strcasecmp_eq(buf, IN_ADDR_STR)
    THEN [name EXCEPT !.host = strlcat(strlcat(@, <<46>>, MDNS_NAME_BUF_LEN), buf,
                                       MDNS_NAME_BUF_LEN)]
    ELSE IF strcasecmp_eq(buf, MDNS_SUB_STR) THEN [name EXCEPT !.sub = TRUE]
    ELSE IF ~name.invalid THEN NamePut(name, buf)
    ELSE name

\* The return value NULL; a returned address is its offset in the packet,
\* which is never 0
NULL == 0

\* The steps one read may take before it is cut off: more than the loop
\* passes of a read whose calls start at ever smaller offsets
ReadFuel == 2 * (MaxPacketLen + 1)

\* A reader without the test of the reference address against start: it
\* follows every pointer
RECURSIVE _mdns_read_fqdn_any(_, _, _, _, _, _, _)
_mdns_read_fqdn_any(mem, packet_len, start, index, name, met, fuel) ==
    IF fuel = 0
    THEN [ret |-> NULL, name |-> name, met |-> met, cut |-> TRUE]
    ELSE IF ~(start + index < packet_len /\ ByteAt(mem, start + index) # 0)
    THEN [ret |-> start + index + 1, name |-> name, met |-> met, cut |-> FALSE]
    ELSE
    LET name1 == IF name.parts = 4 THEN [name EXCEPT !.invalid = TRUE] ELSE name
        len == ByteAt(mem, start + index)
    IN  IF len < 192
        THEN IF len > 63 \/ start + index + len >= packet_len
             THEN [ret |-> NULL, name |-> name1, met |-> met, cut |-> FALSE]
             ELSE LET buf == [n \in 1..len |-> ByteAt(mem, start + index + n)]
                  IN  _mdns_read_fqdn_any(mem, packet_len, start, index + 1 + len,
                                          NameLabel(name1, buf), met, fuel - 1)
        ELSE LET address == (len % 64) * 256 + ByteAt(mem, start + index + 1)
                 met1 == Append(met, [at |-> start + index, to |-> address,
                                      followed |-> address < packet_len])
             IN  IF address >= packet_len
                 THEN [ret |-> NULL, name |-> name1, met |-> met1, cut |-> FALSE]
                 ELSE LET r == _mdns_read_fqdn_any(mem, packet_len, address, 0,
                                                   name1, met1, fuel - 1)
                      IN  IF r.ret # NULL
                          THEN [r EXCEPT !.ret = start + index + 2]
                          ELSE r

\* _mdns_read_fqdn(packet, start, name, buf, packet_len), from the loop pass
\* at start[index] on.  mem is the packet and the byte after it, which the
\* second byte of a pointer is read from when the pointer's first byte is
\* the packet's last.  met lists the pointers met, each with its own offset,
\* its reference address and whether the read went on at that address; cut
\* tells a read that ran out of steps.
RECURSIVE _mdns_read_fqdn(_, _, _, _, _, _, _)
_mdns_read_fqdn(mem, packet_len, start, index, name, met, fuel) ==
    IF fuel = 0
    THEN [ret |-> NULL, name |-> name, met |-> met, cut |-> TRUE]
    ELSE IF ~(start + index < packet_len /\ ByteAt(mem, start + index) # 0)
    THEN [ret |-> start + index + 1, name |-> name, met |-> met, cut |-> FALSE]
    ELSE
    LET name1 == IF name.parts = 4 THEN [name EXCEPT !.invalid = TRUE] ELSE name
        len == ByteAt(mem, start + index)
    IN  IF len < 192
        THEN IF len > 63 \/ start + index + len >= packet_len
             THEN [ret |-> NULL, name |-> name1, met |-> met, cut |-> FALSE]
             ELSE LET buf == [n \in 1..len |-> ByteAt(mem, start + index + n)]
                  IN  _mdns_read_fqdn(mem, packet_len, start, index + 1 + len,
                                      NameLabel(name1, buf), met, fuel - 1)
        ELSE LET address == (len % 64) * 256 + ByteAt(mem, start + index + 1)
                 met1 == Append(met, [at |-> start + index, to |-> address,
                                      followed |-> address < start])
             IN  IF address >= start
                 THEN [ret |-> NULL, name |-> name1, met |-> met1, cut |-> FALSE]
                 ELSE LET r == _mdns_read_fqdn(mem, packet_len, address, 0,
                                               name1, met1, fuel - 1)
                      IN  IF r.ret # NULL
                          THEN [r EXCEPT !.ret = start + index + 2]
                          ELSE r

\* _mdns_parse_fqdn(packet, start, name, packet_len)
_mdns_parse_fqdn(mem, packet_len, start) ==
    LET r == _mdns_read_fqdn(mem, packet_len, start, 0, NoName, <<>>, ReadFuel)
        n == r.name
        moved == IF n.parts = 3
                 THEN [n EXCEPT !.host = <<>>, !.service = n.host,
                                !.proto = n.service, !.domain = n.proto]
                 ELSE IF n.parts = 2
                 THEN [n EXCEPT !.domain = n.service, !.service = <<>>, !.proto = <<>>]
                 ELSE n
        local == \/ strcasecmp_eq(moved.domain, MDNS_DEFAULT_DOMAIN)
                 \/ strcasecmp_eq(moved.domain, ARPA_STR)
    IN  IF r.ret = NULL \/ n.parts = 0 \/ n.invalid THEN r
        ELSE IF local THEN [r EXCEPT !.name = moved]
        ELSE [r EXCEPT !.name = [moved EXCEPT !.invalid = TRUE]]

\* mdns_init(), with or without the hostname that the application sets
\* before the first interface comes up; no packet has been received yet
CreatedServer ==
    /\ services = <<>>
    /\ pcbs = [k \in PCBs |-> PcbOff]
    /\ tx_queue = <<>>
    /\ action_queue = <<>>
    /\ cur = <<>>
    /\ share_step = 0
    /\ service_semaphore = 1
    /\ hist = [log |-> [k \in PCBs |-> <<>>], order_ok |-> TRUE,
               last_tx |-> <<>>, since |-> [k \in PCBs |-> 0],
               probed |-> [k \in PCBs |-> FALSE],
               chg |-> [k \in PCBs |-> NoChange], rx |-> <<>>, applied |-> {},
               bye |-> <<>>, reply |-> <<>>, tx |-> NoTx, dup_tx |-> FALSE,
               told |-> [id \in ResultIds |-> <<>>]]
    /\ action_sema = 0
    /\ hosts = <<>>
    /\ browse = <<>>
    /\ search_once = <<>>
    /\ searches = [id \in SearchIds |-> NoSearch]
    /\ calls = [c \in Callers |-> NoCall]

\* every allocation succeeds and no packet is being decoded
Created ==
    CreatedServer /\ fqdn = NoFqdn /\ oom = FALSE /\ action_queue_len = ActionQueueLen

Started == hostname \in {<<>>} \cup HostNames /\ Created

\* mdns_post_custom_action_tcpip_if / the system event handlers
PostSystemEvent ==
    \E i \in Ifs, ev \in {"ENABLE_IP4", "DISABLE_IP4", "ANNOUNCE_IP4"} :
        Post([NoAction EXCEPT !.type = "SYSTEM_EVENT", !.interface = i, !.event = ev])

\* mdns_hostname_set
PostHostnameSet ==
    \E h \in HostNames :
        Post([NoAction EXCEPT !.type = "HOSTNAME_SET", !.hostname = h])

RxPackets ==
    {[NoRx EXCEPT !.qr = TRUE, !.authoritative = TRUE, !.answers = TRUE, !.a = "lose"],
     [NoRx EXCEPT !.qr = TRUE, !.authoritative = TRUE, !.answers = TRUE, !.a = "dup"],
     [NoRx EXCEPT !.qr = TRUE, !.authoritative = TRUE, !.answers = TRUE, !.a = "lose",
                  !.ttl = 0],
     [NoRx EXCEPT !.qr = TRUE, !.authoritative = TRUE, !.answers = TRUE, !.a = "lose",
                  !.data_len = 0],
     [NoRx EXCEPT !.answers = TRUE, !.a = "lose"],
     [NoRx EXCEPT !.probe = TRUE, !.questions = TRUE, !.a = "lose"],
     [NoRx EXCEPT !.questions = TRUE]}

\* _mdns_send_rx_action: a packet about the current hostname has arrived at
\* the UDP PCB of an interface, which exists from _mdns_pcb_init to
\* _mdns_pcb_deinit
PostRx ==
    /\ ~_str_null_or_empty(hostname)
    /\ \E i \in RxIfs, rx \in RxPackets :
          /\ mdns_is_netif_ready(Srv, i, "V4")
          /\ Post([NoAction EXCEPT !.type = "RX_HANDLE", !.interface = i,
                                !.rx = [rx EXCEPT !.host = hostname]])

\* the tick count has advanced by d
Elapse(txq, d) == [n \in 1..Len(txq) |-> [txq[n] EXCEPT !.send_at = @ - d]]

\* _mdns_timer_cb: _mdns_scheduler_run, then _mdns_search_run.  A callback that
\* finds no packet due and no search in the list changes nothing, so while no
\* search is on, the step covers the callbacks up to the first one that finds
\* the first unqueued packet due.
TimerCb ==
    LET U == {n \in 1..Len(tx_queue) : ~tx_queue[n].queued}
        on == {n \in 1..Len(search_once) : searches[search_once[n]].state # "OFF"}
        first == tx_queue[SetMin(U)].send_at
        d == IF on # {} \/ first < TIMER_PERIOD_MS THEN TIMER_PERIOD_MS
             ELSE ((first \div TIMER_PERIOD_MS) + 1) * TIMER_PERIOD_MS
        busy == action_queue # <<>> \/ cur # <<>>
    IN /\ service_semaphore = 1
       /\ U # {} \/ on # {}
       /\ busy => stall > 0
       /\ stall' = IF busy THEN stall - 1 ELSE stall
       /\ \E ok \in (IF oom /\ budget > 0 THEN BOOLEAN ELSE {TRUE}),
             deq_at \in 0..Len(tx_queue) :
            LET st == _mdns_scheduler_run(
                         [txq |-> Elapse(tx_queue, d), aq |-> action_queue, cur |-> cur],
                         0, ok, deq_at)
                sr == _mdns_search_run(
                         [aq |-> st.aq, search_once |-> search_once,
                          searches |-> ElapseSearches(searches, d)], 1)
            IN /\ tx_queue' = st.txq
               /\ action_queue' = sr.aq
               /\ cur' = st.cur
               /\ searches' = sr.searches
               /\ hist' = [hist EXCEPT
                              !.chg = [k \in PCBs |-> NoChange],
                              !.rx = <<>>,
                              !.bye = <<>>, !.reply = <<>>, !.tx = NoTx,
                              !.last_tx = [n \in 1..Len(@) |-> [@[n] EXCEPT !.send_at = @ - d]],
                              !.since = [k \in PCBs |->
                                            IF pcbs[k].state \in ProbeStates \cup AnnounceStates
                                            THEN @[k] + d ELSE 0]]
               /\ budget' = IF ok THEN budget ELSE budget - 1
               /\ UNCHANGED <<hostname, services, pcbs, share_step, oom>>
               /\ UNCHANGED <<search_once, calls, action_sema, hosts, browse, fqdn, service_semaphore, action_queue_len>>

\* xQueueReceive in _mdns_service_task
Dequeue ==
    /\ cur = <<>>
    /\ action_queue # <<>>
    /\ cur' = <<Head(action_queue)>>
    /\ action_queue' = Tail(action_queue)
    /\ Untouched
    /\ UNCHANGED <<oom, budget, stall>>

Met(a) ==
    IF a.type # "RX_HANDLE" THEN <<>>
    ELSE <<[interface |-> a.interface, rx |-> a.rx, hostname |-> hostname,
            state |-> pcbs[<<a.interface, "V4">>].state,
            probe_running |-> pcbs[<<a.interface, "V4">>].probe_running]>>

\* _mdns_service_task: the action it has received is executed between
\* MDNS_SERVICE_LOCK and MDNS_SERVICE_UNLOCK
Execute(type, handler(_, _, _), op(_)) ==
    /\ service_semaphore = 1
    /\ cur # <<>>
    /\ cur[1].type = type
    /\ \E e \in Envs :
          /\ Commit(handler([Srv EXCEPT !.avoid = IF e.reuse THEN {} ELSE Stale], e, cur[1]),
                    op(cur[1]), Met(cur[1]))
          /\ budget' = IF e.ok THEN budget ELSE budget - 1
    /\ cur' = <<>>
    /\ UNCHANGED <<oom, stall, service_semaphore>>

ExecSystemEvent ==
    Execute("SYSTEM_EVENT",
            LAMBDA s, e, a : perform_event_action(s, e, a.interface, a.event),
            LAMBDA a : a.event)

ExecHostnameSet ==
    Execute("HOSTNAME_SET",
            LAMBDA s, e, a : ExecuteHostnameSet(s, e, a.hostname, a.caller),
            LAMBDA a : "hostname_set")

ExecTxHandle ==
    Execute("TX_HANDLE",
            LAMBDA s, e, a :
                ExecuteTxHandle(
                    [s EXCEPT !.hist.tx =
                        [handled |-> <<a.packet>>,
                         head |-> IF s.txq = <<>> THEN 0 ELSE s.txq[1].id,
                         queued |-> s.txq # <<>> /\ s.txq[1].queued,
                         sent |-> <<>>]],
                    e, a.packet),
            LAMBDA a : "tx_handle")

ExecRxHandle ==
    Execute("RX_HANDLE", LAMBDA s, e, a : mdns_parse_packet(s, e, a.interface, "V4", a.rx),
            LAMBDA a : "rx_handle")

ServiceAdd ==
    /\ budget > 0
    /\ service_semaphore = 1
    /\ Settled
    /\ ~_str_null_or_empty(hostname)
    /\ \E v \in SvcTypes, e \in Envs :
          /\ _mdns_get_service_item(Srv, v, <<>>) = {}
          /\ Commit(mdns_service_add_for_host(Srv, e, <<>>, v, <<>>), "service_add", <<>>)
    /\ budget' = budget - 1
    /\ UNCHANGED <<cur, oom, stall, service_semaphore>>

ServiceRemove ==
    /\ budget > 0
    /\ service_semaphore = 1
    /\ Settled
    /\ \E v \in SvcTypes :
          /\ _mdns_get_service_item(Srv, v, <<>>) # {}
          /\ Commit(mdns_service_remove_for_host(Srv, <<>>, v, <<>>), "service_remove", <<>>)
    /\ budget' = budget - 1
    /\ UNCHANGED <<cur, oom, stall, service_semaphore>>

Next ==
    \/ PostSystemEvent
    \/ PostHostnameSet
    \/ PostRx
    \/ TimerCb
    \/ Dequeue
    \/ ExecSystemEvent
    \/ ExecHostnameSet
    \/ ExecTxHandle
    \/ ExecRxHandle
    \/ ServiceAdd
    \/ ServiceRemove

Init == Started /\ budget = MaxEvents /\ stall = MaxStall

Spec == Init /\ [][Next]_vars

(* The behaviours with one-shot queries: no hostname is set, so an enabled   *)
(* interface is RUNNING at once and nothing is ever scheduled; the           *)
(* interface that packets arrive on comes up, the application asks,          *)
(* responses arrive, the timer runs the searches.                            *)

\* mdns_query_generic up to xSemaphoreTake, called by the first task that is
\* not inside a call
QueryStart ==
    /\ budget > 0
    /\ budget' = budget - 1
    /\ \E c \in Callers, max_results \in QueryMaxResults, timeout \in QueryTimeouts,
          id \in {x \in SearchIds : searches[x].state = "NONE"} :
          /\ calls[c].state # "blocked"
          /\ \A b \in Callers : b < c => calls[b].state = "blocked"
          /\ IF timeout = 0
             THEN /\ calls' = [calls EXCEPT ![c] = [NoCall EXCEPT !.op = "query",
                                  !.state = "returned", !.ret = "ESP_ERR_INVALID_ARG"]]
                  /\ UNCHANGED <<searches, action_queue>>
             ELSE IF CanSend(action_queue)
             THEN /\ searches' = [searches EXCEPT
                                     ![id] = _mdns_search_init(max_results, timeout)]
                  /\ action_queue' = Append(action_queue, SearchAction("SEARCH_ADD", id))
                  /\ calls' = [calls EXCEPT ![c] = [NoCall EXCEPT !.op = "query",
                                  !.state = "blocked", !.search = id]]
             ELSE /\ calls' = [calls EXCEPT ![c] = [NoCall EXCEPT !.op = "query",
                                  !.state = "returned", !.ret = "ESP_ERR_NO_MEM"]]
                  /\ UNCHANGED <<searches, action_queue>>
    /\ hist' = [hist EXCEPT !.chg = [k \in PCBs |-> NoChange], !.rx = <<>>, !.bye = <<>>, !.reply = <<>>, !.tx = NoTx]
    /\ UNCHANGED <<hostname, services, pcbs, tx_queue, share_step, search_once>>
    /\ UNCHANGED <<action_sema, hosts, browse, fqdn, service_semaphore, action_queue_len>>
    /\ UNCHANGED <<cur, oom, stall>>

\* mdns_query_generic from xSemaphoreTake on
QueryReturn ==
    /\ \E c \in Callers :
          /\ calls[c].state = "blocked"
          /\ calls[c].op = "query"
          /\ searches[calls[c].search].done_semaphore = 1
          /\ calls' = [calls EXCEPT ![c].state = "returned",
                                    ![c].ret = "ESP_OK",
                                    ![c].results = searches[calls[c].search].result,
                                    ![c].matched = searches[calls[c].search].matched]
          /\ searches' = _mdns_search_free(Srv, calls[c].search).searches
    /\ hist' = [hist EXCEPT !.chg = [k \in PCBs |-> NoChange], !.rx = <<>>, !.bye = <<>>, !.reply = <<>>, !.tx = NoTx]
    /\ UNCHANGED <<hostname, services, pcbs, tx_queue, share_step, search_once>>
    /\ UNCHANGED <<action_sema, hosts, browse, fqdn, service_semaphore, action_queue_len>>
    /\ UNCHANGED <<action_queue, cur, oom, budget, stall>>

\* _mdns_send_rx_action: a response with PTR records for the name that is
\* searched has arrived
PostRxSearch ==
    /\ search_once # <<>>
    /\ \E i \in RxIfs, ptr \in PtrAnswers, aa \in BOOLEAN :
          /\ mdns_is_netif_ready(Srv, i, "V4")
          /\ Post([NoAction EXCEPT !.type = "RX_HANDLE", !.interface = i,
                                !.rx = [NoRx EXCEPT !.qr = TRUE, !.authoritative = aa,
                                                    !.answers = TRUE, !.ptr = ptr]])

\* ACTION_SEARCH_ADD, ACTION_SEARCH_SEND and ACTION_SEARCH_END
ExecSearch ==
    \/ Execute("SEARCH_ADD", LAMBDA s, e, a : _mdns_search_add(s, a.search),
               LAMBDA a : "search_add")
    \/ Execute("SEARCH_SEND", LAMBDA s, e, a : _mdns_search_send(s, a.search),
               LAMBDA a : "search_send")
    \/ Execute("SEARCH_END", LAMBDA s, e, a : _mdns_search_finish(s, a.search),
               LAMBDA a : "search_end")

InitSearch ==
    Started /\ hostname = <<>> /\ budget = MaxQueryEvents /\ stall = MaxQueryStall

NextSearch ==
    \/ \E i \in RxIfs :
          Post([NoAction EXCEPT !.type = "SYSTEM_EVENT", !.interface = i,
                                !.event = "ENABLE_IP4"])
    \/ QueryStart
    \/ QueryReturn
    \/ PostRxSearch
    \/ TimerCb
    \/ Dequeue
    \/ ExecSystemEvent
    \/ ExecSearch
    \/ ExecRxHandle

SpecSearch == InitSearch /\ [][NextSearch]_vars

(* The behaviours in which the names change: tasks of the application set    *)
(* the hostname, add and remove delegated hosts, add, rename and remove      *)
(* services while no interface is enabled.                                   *)

\* mdns_hostname_set and mdns_delegate_hostname_add up to xSemaphoreTake,
\* called by the first task that is not inside a call
BlockingCall(op, type, names) ==
    /\ budget > 0
    /\ budget' = budget - 1
    /\ \E c \in Callers, name \in names :
          /\ calls[c].state # "blocked"
          /\ \A b \in Callers : b < c => calls[b].state = "blocked"
          /\ IF CanSend(action_queue)
             THEN /\ action_queue' = Append(action_queue,
                                            [NoAction EXCEPT !.type = type,
                                                             !.hostname = name,
                                                             !.caller = c])
                  /\ calls' = [calls EXCEPT ![c] = [NoCall EXCEPT !.op = op,
                                  !.state = "blocked", !.arg = name]]
             ELSE /\ calls' = [calls EXCEPT ![c] = [NoCall EXCEPT !.op = op,
                                  !.state = "returned", !.arg = name,
                                  !.ret = "ESP_ERR_NO_MEM", !.full = TRUE]]
                  /\ UNCHANGED action_queue
          /\ hist' = [hist EXCEPT !.chg = [k \in PCBs |-> NoChange], !.rx = <<>>, !.bye = <<>>, !.reply = <<>>, !.tx = NoTx,
                                  !.applied = @ \ {c}]
    /\ UNCHANGED <<hostname, services, pcbs, tx_queue, share_step>>
    /\ UNCHANGED <<search_once, searches, action_sema, hosts, browse, fqdn, service_semaphore, action_queue_len>>
    /\ UNCHANGED <<cur, oom, stall>>

HostnameSetCall == BlockingCall("hostname_set", "HOSTNAME_SET", CallHostNames)

DelegateAddCall ==
    BlockingCall("delegate_hostname_add", "DELEGATE_HOSTNAME_ADD", DelegatedNames)

\* xSemaphoreTake(action_sema) of a blocked call succeeds and the call returns
CallReturn ==
    /\ action_sema = 1
    /\ action_sema' = 0
    /\ \E c \in Callers :
          /\ calls[c].state = "blocked"
          /\ calls[c].op \in {"hostname_set", "delegate_hostname_add"}
          /\ calls' = [calls EXCEPT ![c].state = "returned", ![c].ret = "ESP_OK",
                                    ![c].applied = c \in hist.applied]
    /\ hist' = [hist EXCEPT !.chg = [k \in PCBs |-> NoChange], !.rx = <<>>, !.bye = <<>>, !.reply = <<>>, !.tx = NoTx]
    /\ UNCHANGED <<hostname, services, pcbs, tx_queue, share_step>>
    /\ UNCHANGED <<search_once, searches, hosts, browse, fqdn, service_semaphore, action_queue_len>>
    /\ UNCHANGED <<action_queue, cur, oom, budget, stall>>

\* ACTION_DELEGATE_HOSTNAME_ADD and ACTION_DELEGATE_HOSTNAME_REMOVE
ExecDelegate ==
    \/ Execute("DELEGATE_HOSTNAME_ADD",
               LAMBDA s, e, a : ExecuteDelegateHostnameAdd(s, e, a.hostname, a.caller),
               LAMBDA a : "delegate_hostname_add")
    \/ Execute("DELEGATE_HOSTNAME_REMOVE",
               LAMBDA s, e, a : _mdns_delegate_hostname_remove(s, a.hostname),
               LAMBDA a : "delegate_hostname_remove")

\* mdns_delegate_hostname_remove, which does not wait
DelegateRemoveCall ==
    /\ budget > 0
    /\ budget' = budget - 1
    /\ \E name \in DelegatedNames :
          action_queue' = IF CanSend(action_queue)
                          THEN Append(action_queue,
                                      [NoAction EXCEPT !.type = "DELEGATE_HOSTNAME_REMOVE",
                                                       !.hostname = name])
                          ELSE action_queue
    /\ Untouched
    /\ UNCHANGED <<cur, oom, stall>>

\* the calls of the service API that act at once, under the lock; a call
\* that fails changes nothing
ServiceCall ==
    /\ budget > 0
    /\ service_semaphore = 1
    /\ budget' = budget - 1
    /\ \E v \in SvcTypes, e \in Envs :
          \/ \E instance \in SvcInstances, host \in SvcHosts :
                LET hname == IF host # <<>> THEN host ELSE hostname
                IN /\ ~_str_null_or_empty(hostname)
                   /\ Len(services) < MaxServices
                   /\ _mdns_get_service_item_instance(Srv, instance, v, hname) = {}
                   /\ Commit(mdns_service_add_for_host(Srv, e, instance, v, host),
                             "service_add", <<>>)
          \/ /\ _mdns_get_service_item_instance(Srv, <<>>, v, hostname) # {}
             /\ Commit(mdns_service_remove_for_host(Srv, <<>>, v, <<>>),
                       "service_remove", <<>>)
          \/ \E instance_old \in SvcInstances, instance \in SvcInstances \ {<<>>} :
                /\ _mdns_get_service_item_instance(Srv, instance_old, v, hostname) # {}
                /\ Commit(mdns_service_instance_name_set_for_host(
                              Srv, e, instance_old, v, <<>>, instance),
                          "service_instance_name_set", <<>>)
    /\ UNCHANGED <<cur, oom, stall, service_semaphore>>

InitNames == Started /\ budget = MaxNameEvents /\ stall = 0

NextNames ==
    \/ HostnameSetCall
    \/ DelegateAddCall
    \/ CallReturn
    \/ Dequeue
    \/ ExecHostnameSet
    \/ ExecDelegate
    \/ DelegateRemoveCall
    \/ ServiceCall

SpecNames == InitNames /\ [][NextNames]_vars

(* The behaviours of the calls that wait for their action, with the          *)
(* scheduling of FreeRTOS: the service task blocks only in                   *)
(* xQueueReceive(action_queue, portMAX_DELAY), so it takes a waiting action  *)
(* and runs its handler to the end, and a task that waits in                 *)
(* xSemaphoreTake(action_sema, portMAX_DELAY) runs when the semaphore is     *)
(* there to take.                                                            *)

MaxWaitEvents == 3

\* ACTION_DELEGATE_HOSTNAME_ADD
ExecDelegateAdd ==
    Execute("DELEGATE_HOSTNAME_ADD",
            LAMBDA s, e, a : ExecuteDelegateHostnameAdd(s, e, a.hostname, a.caller),
            LAMBDA a : "delegate_hostname_add")

InitWait == Started /\ budget = MaxWaitEvents /\ stall = 0

NextWait ==
    \/ HostnameSetCall
    \/ DelegateAddCall
    \/ CallReturn
    \/ Dequeue
    \/ ExecHostnameSet
    \/ ExecDelegateAdd

SpecWait ==
    /\ InitWait /\ [][NextWait]_vars
    /\ WF_vars(Dequeue)
    /\ WF_vars(ExecHostnameSet)
    /\ WF_vars(ExecDelegateAdd)
    /\ WF_vars(CallReturn)

(* The behaviours of a responder whose hostname is as long as can be set:    *)
(* an interface comes up and packets about the hostname arrive.              *)

InitLong == hostname \in LongNames /\ Created /\ budget = MaxLongEvents /\ stall = 0

NextLong ==
    \/ \E i \in RxIfs :
          Post([NoAction EXCEPT !.type = "SYSTEM_EVENT", !.interface = i,
                                !.event = "ENABLE_IP4"])
    \/ PostRx
    \/ TimerCb
    \/ Dequeue
    \/ ExecSystemEvent
    \/ ExecTxHandle
    \/ ExecRxHandle

SpecLong == InitLong /\ [][NextLong]_vars

(* The behaviours in which PTR queries for the registered services arrive:   *)
(* the application registers services, an interface comes up, and queries    *)
(* that may carry a PTR record as known answer are received.                 *)

\* mdns_service_add, with or without an instance name
ServiceAddInstance ==
    /\ budget > 0
    /\ service_semaphore = 1
    /\ Settled
    /\ \E v \in SvcTypes, instance \in {<<>>, <<"x">>}, e \in Envs :
          /\ _mdns_get_service_item_instance(Srv, instance, v, hostname) = {}
          /\ Commit(mdns_service_add_for_host(Srv, e, instance, v, <<>>), "service_add", <<>>)
    /\ budget' = budget - 1
    /\ UNCHANGED <<cur, oom, stall, service_semaphore>>

\* the instance names that the PTR records of the queries give: the default
\* instance name, the name of an instance and a name that is not ours
KnownInstances == HostNames \cup {<<"x">>, <<"y">>}

\* _mdns_send_rx_action: a query with a PTR question for a service type, alone
\* or in a probe for our hostname, with or without a known answer
PostRxPtr ==
    /\ services # <<>>
    /\ \E i \in RxIfs, v \in SvcTypes, known \in {<<>>} \cup KnownInstances,
          ttl \in {MDNS_ANSWER_PTR_TTL \div 2, MDNS_ANSWER_PTR_TTL}, probe \in BOOLEAN :
          /\ mdns_is_netif_ready(Srv, i, "V4")
          /\ known = <<>> => ttl = MDNS_ANSWER_PTR_TTL
          /\ Post([NoAction EXCEPT !.type = "RX_HANDLE", !.interface = i,
                                !.rx = [NoRx EXCEPT !.qptr = v, !.known = known, !.ttl = ttl,
                                                    !.questions = probe, !.probe = probe,
                                                    !.host = IF probe THEN hostname
                                                             ELSE <<>>]])

InitPtr == hostname \in HostNames /\ Created /\ budget = MaxPtrEvents /\ stall = 0

NextPtr ==
    \/ ServiceAddInstance
    \/ \E i \in RxIfs :
          Post([NoAction EXCEPT !.type = "SYSTEM_EVENT", !.interface = i,
                                !.event = "ENABLE_IP4"])
    \/ PostRxPtr
    \/ TimerCb
    \/ Dequeue
    \/ ExecSystemEvent
    \/ ExecTxHandle
    \/ ExecRxHandle

SpecPtr == InitPtr /\ [][NextPtr]_vars

(* The behaviours in which only the interfaces change: system events, the    *)
(* timer and the service task.                                               *)

InitIf == Started /\ budget = MaxIfEvents /\ stall = MaxIfStall

NextIf ==
    \/ PostSystemEvent
    \/ TimerCb
    \/ Dequeue
    \/ ExecSystemEvent
    \/ ExecTxHandle

SpecIf == InitIf /\ [][NextIf]_vars

(* The behaviours with two interfaces on one subnet: interfaces come up and  *)
(* go down, and an interface receives the address record that the other      *)
(* interface has sent.                                                        *)

\* _mdns_send_rx_action: the A record of the other interface has arrived
PostRxDup ==
    \E i \in Ifs :
        /\ mdns_is_netif_ready(Srv, i, "V4")
        /\ Post([NoAction EXCEPT !.type = "RX_HANDLE", !.interface = i,
                              !.rx = [NoRx EXCEPT !.qr = TRUE, !.authoritative = TRUE,
                                                  !.answers = TRUE, !.a = "dup",
                                                  !.host = hostname]])

InitDup == hostname \in HostNames /\ Created /\ budget = MaxDupEvents /\ stall = 0

NextDup ==
    \/ \E i \in Ifs, ev \in {"ENABLE_IP4", "DISABLE_IP4"} :
          Post([NoAction EXCEPT !.type = "SYSTEM_EVENT", !.interface = i, !.event = ev])
    \/ PostRxDup
    \/ TimerCb
    \/ Dequeue
    \/ ExecSystemEvent
    \/ ExecTxHandle
    \/ ExecRxHandle

SpecDup == InitDup /\ [][NextDup]_vars

(* The behaviours of a host that keeps losing its name: interfaces come up   *)
(* and go down, and each probe for the hostname is answered by a host that   *)
(* holds the name, or by the other interface of this host.                   *)

MaxBackoffEvents == 7

\* _mdns_send_rx_action: an authoritative A record for the hostname with the
\* address of another host, or with the address of the other interface
PostRxBackoff ==
    /\ ~_str_null_or_empty(hostname)
    /\ \E i \in RxIfs, a \in {"lose", "dup"} :
          /\ mdns_is_netif_ready(Srv, i, "V4")
          /\ Post([NoAction EXCEPT !.type = "RX_HANDLE", !.interface = i,
                                !.rx = [NoRx EXCEPT !.qr = TRUE, !.authoritative = TRUE,
                                                    !.answers = TRUE, !.a = a,
                                                    !.host = hostname]])

InitBackoff == hostname \in HostNames /\ Created /\ budget = MaxBackoffEvents /\ stall = 0

NextBackoff ==
    \/ \E i \in Ifs :
          Post([NoAction EXCEPT !.type = "SYSTEM_EVENT", !.interface = i,
                                !.event = "ENABLE_IP4"])
    \/ \E i \in RxIfs :
          Post([NoAction EXCEPT !.type = "SYSTEM_EVENT", !.interface = i,
                                !.event = "DISABLE_IP4"])
    \/ PostRxBackoff
    \/ TimerCb
    \/ Dequeue
    \/ ExecSystemEvent
    \/ ExecTxHandle
    \/ ExecRxHandle

SpecBackoff == InitBackoff /\ [][NextBackoff]_vars

(* The behaviours with browses: the application starts and deletes browses, *)
(* an interface comes up, and responses of another host about an instance   *)
(* of the browsed service arrive, also while the service task has work at   *)
(* hand.                                                                     *)

\* xQueueSend(action_queue, &action, 0) by the application or the network
Send(a) ==
    /\ budget > 0
    /\ budget' = budget - 1
    /\ action_queue' = IF CanSend(action_queue) THEN Append(action_queue, a) ELSE action_queue
    /\ Untouched
    /\ UNCHANGED <<cur, oom, stall>>

\* mdns_browse_new
BrowseNew ==
    \E key \in BrowseKeys : Send([NoAction EXCEPT !.type = "BROWSE_ADD", !.browse = key])

\* mdns_browse_delete
BrowseDelete ==
    \E key \in BrowseKeys : Send([NoAction EXCEPT !.type = "BROWSE_END", !.browse = key])

NoRecord == [type |-> "", service |-> "", proto |-> "", host |-> <<>>, target |-> <<>>,
             txt |-> <<>>, ttl |-> 0, ip |-> 0]

\* TXT data: one item, and two items with the same key
BrowseTxts == {<<[key |-> "k", value |-> "1"]>>,
               <<[key |-> "k", value |-> "1"], [key |-> "k", value |-> "2"]>>}

\* the records of the responses: SRV (also as a goodbye) and TXT of the
\* instance x of _http._tcp on the host h, and the address of h
BrowseRecordsRx ==
    {[NoRecord EXCEPT !.type = "SRV", !.service = "_http", !.proto = "_tcp",
                      !.host = <<"x">>, !.target = <<"h">>, !.ttl = ttl] : ttl \in {0, 120}}
    \cup {[NoRecord EXCEPT !.type = "TXT", !.service = "_http", !.proto = "_tcp",
                           !.host = <<"x">>, !.txt = txt, !.ttl = 120] : txt \in BrowseTxts}
    \cup {[NoRecord EXCEPT !.type = "A", !.host = <<"h">>, !.ip = 1, !.ttl = 120]}

\* _mdns_send_rx_action: a response of another host has arrived
PostRxBrowse ==
    \E i \in RxIfs, rec \in BrowseRecordsRx :
        /\ mdns_is_netif_ready(Srv, i, "V4")
        /\ Send([NoAction EXCEPT !.type = "RX_HANDLE", !.interface = i,
                              !.rx = [NoRx EXCEPT !.qr = TRUE, !.authoritative = TRUE,
                                                  !.answers = TRUE, !.records = <<rec>>]])

ExecBrowseAdd ==
    Execute("BROWSE_ADD", LAMBDA s, e, a : _mdns_browse_add(s, a.browse),
            LAMBDA a : "browse_add")

ExecBrowseSync ==
    Execute("BROWSE_SYNC", LAMBDA s, e, a : _mdns_browse_sync(s, a.sync.browse, a.sync.result),
            LAMBDA a : "browse_sync")

ExecBrowseEnd ==
    Execute("BROWSE_END", LAMBDA s, e, a : _mdns_browse_finish(s, a.browse),
            LAMBDA a : "browse_end")

InitBrowse == hostname \in HostNames /\ Created /\ budget = MaxBrowseEvents /\ stall = 0

NextBrowse ==
    \/ BrowseNew
    \/ BrowseDelete
    \/ \E i \in RxIfs :
          Send([NoAction EXCEPT !.type = "SYSTEM_EVENT", !.interface = i,
                                !.event = "ENABLE_IP4"])
    \/ PostRxBrowse
    \/ TimerCb
    \/ Dequeue
    \/ ExecSystemEvent
    \/ ExecTxHandle
    \/ ExecRxHandle
    \/ ExecBrowseAdd
    \/ ExecBrowseSync
    \/ ExecBrowseEnd

SpecBrowse == InitBrowse /\ [][NextBrowse]_vars

(* The behaviours with browses of a responder whose action queue holds one  *)
(* action more, so that a call of the application can wait in it together   *)
(* with what a received packet queues.                                      *)

InitSync ==
    /\ hostname \in HostNames
    /\ CreatedServer
    /\ fqdn = NoFqdn
    /\ oom = FALSE
    /\ action_queue_len = ActionQueueLen + 1
    /\ budget = MaxSyncEvents
    /\ stall = 0

NextSync ==
    \/ BrowseNew
    \/ BrowseDelete
    \/ \E i \in RxIfs :
          Send([NoAction EXCEPT !.type = "SYSTEM_EVENT", !.interface = i,
                                !.event = "ENABLE_IP4"])
    \/ PostRxBrowse
    \/ TimerCb
    \/ Dequeue
    \/ ExecSystemEvent
    \/ ExecTxHandle
    \/ ExecRxHandle
    \/ ExecBrowseAdd
    \/ ExecBrowseSync
    \/ ExecBrowseEnd

SpecSync == InitSync /\ [][NextSync]_vars

\* Decoding of a name: any packet of MaxPacketLen bytes over FqdnBytes,
\* followed by any one of those bytes in the memory after the packet, and a
\* name that starts at any offset in the packet
FqdnPackets == [1..(MaxPacketLen + 1) -> FqdnBytes]

InitFqdn ==
    /\ hostname \in HostNames
    /\ CreatedServer
    /\ oom = FALSE
    /\ action_queue_len = ActionQueueLen
    /\ budget = 0
    /\ stall = 0
    /\ fqdn \in {[mem |-> m, packet_len |-> MaxPacketLen, start |-> st, out |-> <<>>] :
                     m \in FqdnPackets, st \in 0..(MaxPacketLen - 1)}

\* mdns_parse_packet reads one name of the packet
ParseFqdn ==
    /\ fqdn.out = <<>>
    /\ fqdn' = [fqdn EXCEPT !.out = <<_mdns_parse_fqdn(fqdn.mem, fqdn.packet_len, fqdn.start)>>]
    /\ UNCHANGED <<hostname, services, pcbs, tx_queue, action_queue, cur, share_step, oom,
                   budget, stall, hist, search_once, searches, calls, action_sema, hosts,
                   browse, service_semaphore, action_queue_len>>

NextFqdn == ParseFqdn

SpecFqdn == InitFqdn /\ [][NextFqdn]_vars

(* The behaviours in which tasks of the application call the API while the  *)
(* service task has not yet taken the action of an earlier call.            *)

\* mdns_netif_action, called by the first task that is not inside a call
NetifActionCall ==
    /\ budget > 0
    /\ budget' = budget - 1
    /\ \E c \in Callers, i \in Ifs, ev \in {"ENABLE_IP4", "DISABLE_IP4"} :
          /\ calls[c].state # "blocked"
          /\ \A b \in Callers : b < c => calls[b].state = "blocked"
          /\ action_queue' =
                IF CanSend(action_queue)
                THEN Append(action_queue, [NoAction EXCEPT !.type = "SYSTEM_EVENT",
                                                           !.interface = i, !.event = ev])
                ELSE action_queue
          /\ calls' = [calls EXCEPT ![c] = [NoCall EXCEPT !.op = "netif_action",
                          !.state = "returned", !.ret = "ESP_OK",
                          !.full = ~CanSend(action_queue)]]
    /\ hist' = [hist EXCEPT !.chg = [k \in PCBs |-> NoChange], !.rx = <<>>, !.bye = <<>>,
                            !.reply = <<>>, !.tx = NoTx]
    /\ UNCHANGED <<hostname, services, pcbs, tx_queue, share_step>>
    /\ UNCHANGED <<search_once, searches, action_sema, hosts, browse, fqdn, service_semaphore, action_queue_len>>
    /\ UNCHANGED <<cur, oom, stall>>

InitApi == Started /\ budget = MaxApiEvents /\ stall = 0

NextApi ==
    \/ NetifActionCall
    \/ HostnameSetCall
    \/ CallReturn
    \/ TimerCb
    \/ Dequeue
    \/ ExecSystemEvent
    \/ ExecHostnameSet
    \/ ExecTxHandle

SpecApi == InitApi /\ [][NextApi]_vars

(* The behaviours of a responder whose allocations may fail: interfaces     *)
(* come up, the application adds and removes services and sets their TXT    *)
(* items.                                                                    *)

\* mdns_service_txt_set_for_host, which takes the mutex first
TxtSetCall ==
    /\ budget > 0
    /\ budget' = budget - 1
    /\ service_semaphore = 1
    /\ \E v \in SvcTypes, num_items \in {0, 1}, e \in Envs :
          LET r == mdns_service_txt_set_for_host(Srv, e, <<>>, v, <<>>, num_items)
          IN  /\ Commit(r.srv, "service_txt_set", <<>>)
              /\ service_semaphore' = r.semaphore
    /\ UNCHANGED <<cur, oom, stall>>

InitTxt ==
    /\ hostname \in HostNames
    /\ CreatedServer
    /\ fqdn = NoFqdn
    /\ oom = TRUE
    /\ action_queue_len = ActionQueueLen
    /\ budget = MaxTxtEvents
    /\ stall = 0

NextTxt ==
    \/ \E i \in RxIfs :
          Post([NoAction EXCEPT !.type = "SYSTEM_EVENT", !.interface = i,
                                !.event = "ENABLE_IP4"])
    \/ ServiceAdd
    \/ ServiceRemove
    \/ TxtSetCall
    \/ TimerCb
    \/ Dequeue
    \/ ExecSystemEvent
    \/ ExecTxHandle

SpecTxt == InitTxt /\ [][NextTxt]_vars

(* The behaviours with asynchronous queries: the application starts them    *)
(* and deletes them through the handle it got, responses arrive and the     *)
(* timer runs the searches.                                                  *)

\* mdns_query_async_new
AsyncNew ==
    /\ budget > 0
    /\ budget' = budget - 1
    /\ \E max_results \in QueryMaxResults, timeout \in QueryTimeouts \ {0},
          id \in {x \in SearchIds : searches[x].state = "NONE"} :
          IF CanSend(action_queue)
          THEN /\ searches' = [searches EXCEPT
                                  ![id] = _mdns_search_init(max_results, timeout)]
               /\ action_queue' = Append(action_queue, SearchAction("SEARCH_ADD", id))
          ELSE UNCHANGED <<searches, action_queue>>
    /\ hist' = [hist EXCEPT !.chg = [k \in PCBs |-> NoChange], !.rx = <<>>, !.bye = <<>>,
                            !.reply = <<>>, !.tx = NoTx]
    /\ UNCHANGED <<hostname, services, pcbs, tx_queue, share_step, search_once>>
    /\ UNCHANGED <<calls, action_sema, hosts, browse, fqdn, service_semaphore, action_queue_len>>
    /\ UNCHANGED <<cur, oom, stall>>

\* mdns_query_async_delete with the handle of a search that has not been
\* deleted: ESP_ERR_INVALID_STATE unless the state of the search is SEARCH_OFF
AsyncDelete ==
    /\ budget > 0
    /\ budget' = budget - 1
    /\ service_semaphore = 1
    /\ \E id \in {x \in SearchIds : searches[x].state # "NONE"} :
          searches' = IF searches[id].state # "OFF" THEN searches
                      ELSE _mdns_search_free(Srv, id).searches
    /\ hist' = [hist EXCEPT !.chg = [k \in PCBs |-> NoChange], !.rx = <<>>, !.bye = <<>>,
                            !.reply = <<>>, !.tx = NoTx]
    /\ UNCHANGED <<hostname, services, pcbs, tx_queue, share_step, search_once>>
    /\ UNCHANGED <<calls, action_sema, hosts, browse, fqdn, service_semaphore, action_queue_len>>
    /\ UNCHANGED <<action_queue, cur, oom, stall>>

InitAsync ==
    Started /\ hostname = <<>> /\ budget = MaxAsyncEvents /\ stall = 0

NextAsync ==
    \/ \E i \in RxIfs :
          Post([NoAction EXCEPT !.type = "SYSTEM_EVENT", !.interface = i,
                                !.event = "ENABLE_IP4"])
    \/ AsyncNew
    \/ AsyncDelete
    \/ PostRxSearch
    \/ TimerCb
    \/ Dequeue
    \/ ExecSystemEvent
    \/ ExecSearch
    \/ ExecRxHandle

SpecAsync == InitAsync /\ [][NextAsync]_vars

-----------------------------------------------------------------------------
(* Properties *)

Pending == cur \o action_queue

\* the TX_HANDLE actions for packet id that wait for the service task
PendingTx(id) == {n \in 1..Len(Pending) : Pending[n].type = "TX_HANDLE" /\ Pending[n].packet = id}

\* neither the timer callback nor the service task has anything left to do
Quiescent ==
    /\ action_queue = <<>>
    /\ cur = <<>>
    /\ \A n \in 1..Len(tx_queue) : tx_queue[n].queued

Sorted(txq) == \A n \in 1..Len(txq) - 1 : txq[n].send_at <= txq[n + 1].send_at

\* the last step has taken PCB k from state `from` to state `to`
Changed(k, from, to) == hist.chg[k].from = from /\ pcbs[k].state = to

BecameRunning(k) == hist.chg[k].from # "" /\ pcbs[k].state = "RUNNING"

\* the transmissions of PCB k in the announce states, since they began
Announced(k) == SelectSeq(hist.log[k], LAMBDA x : x.state \in AnnounceStates)

\* C1 (as stated): whenever the state of a PCB changes to RUNNING, the PCB has
\* completed PROBE_3 since it was last enabled or last restarted probing.
C1_RunningOnlyAfterProbe ==
    \A k \in PCBs : BecameRunning(k) => hist.probed[k]

\* C1 (amended): the state of a PCB changes to RUNNING only when TX_HANDLE
\* handles its packet in ANNOUNCE_3, when an interface is enabled while the
\* hostname is empty, or when the removal of a service ends its probing or
\* announcing.
C1_RunningCauses ==
    \A k \in PCBs :
        BecameRunning(k) =>
            \/ hist.chg[k].op = "tx_handle" /\ hist.chg[k].from = "ANNOUNCE_3"
            \/ hist.chg[k].op = "ENABLE_IP4" /\ _str_null_or_empty(hostname)
            \/ hist.chg[k].op = "service_remove"
               /\ hist.chg[k].from \in ProbeStates \cup AnnounceStates

\* a service removal has taken a PCB that had not finished probing to RUNNING
C1_Witness ==
    \E k \in PCBs :
        /\ BecameRunning(k)
        /\ hist.chg[k].op = "service_remove"
        /\ hist.chg[k].from \in ProbeStates
        /\ ~hist.probed[k]

\* C2: an enabled PCB with a non-empty hostname that sees no collision reaches
\* RUNNING: when the timer and the service task have nothing left to do, no
\* ready PCB is still probing or announcing.
C2_ReachesRunning ==
    Quiescent =>
        \A k \in PCBs :
            (pcbs[k].ready /\ ~_str_null_or_empty(hostname)) => pcbs[k].state = "RUNNING"

Alpha(n) == IF n = 1 THEN <<"a">> ELSE <<"a", "-", Dec(n)[1]>>

\* the last step has parsed, on a PCB in one of the probe states, an A record
\* for the hostname that the PCB loses against (a record without data is not
\* compared)
LostWhileProbing ==
    /\ hist.rx # <<>>
    /\ hist.rx[1].rx.a = "lose"
    /\ hist.rx[1].rx.data_len # 0
    /\ hist.rx[1].state \in ProbeStates

\* the PCB that received the packet probes for name h from the start
ProbesFor(h) ==
    LET k == <<hist.rx[1].interface, "V4">>
    IN /\ hostname = h
       /\ pcbs[k].state = "PROBE_1"
       /\ \E n \in 1..Len(tx_queue) :
             /\ <<tx_queue[n].tcpip_if, tx_queue[n].ip_protocol>> = k
             /\ tx_queue[n].kind = "probe"
             /\ \E m \in 1..Len(tx_queue[n].questions) : tx_queue[n].questions[m].host = h
       /\ \A n \in 1..Len(tx_queue) :
             \A m \in 1..Len(tx_queue[n].questions) : tx_queue[n].questions[m].host = h

\* C4 (as stated): a PCB in PROBE_1..PROBE_3 that receives a conflicting A
\* record for its hostname which it loses against has the hostname mangled
\* and is back in PROBE_1 with a probe packet for the new name scheduled.
C4_CollisionMangles ==
    LostWhileProbing =>
        \E n \in 1..3 : hist.rx[1].hostname = Alpha(n) /\ ProbesFor(Alpha(n + 1))

\* C4 (amended): the same, when the received packet is itself a probe or its
\* flags are exactly QR|AA; any other packet leaves hostname and PCB alone.
C4_AuthoritativeCollisionMangles ==
    LostWhileProbing =>
        IF hist.rx[1].rx.probe \/ hist.rx[1].rx.authoritative
        THEN \E n \in 1..3 : hist.rx[1].hostname = Alpha(n) /\ ProbesFor(Alpha(n + 1))
        ELSE /\ hostname = hist.rx[1].hostname
             /\ \A k \in PCBs : hist.chg[k] = NoChange

\* an authoritative A record has mangled the hostname of a probing PCB
C4_Witness ==
    /\ LostWhileProbing
    /\ hist.rx[1].rx.authoritative
    /\ hist.rx[1].state = "PROBE_2"
    /\ hostname = <<"a", "-", "2">>

\* C5: when a PCB goes from PROBE_3 to ANNOUNCE_1, exactly three probe packets
\* have been transmitted since the probe sequence started, in PROBE_1, PROBE_2
\* and PROBE_3, the second and the third 250 ms after the one before.
C5_ThreeProbes ==
    \A k \in PCBs :
        Changed(k, "PROBE_3", "ANNOUNCE_1") =>
            /\ Len(hist.log[k]) = 3
            /\ \A n \in 1..3 :
                  /\ hist.log[k][n].kind = "probe"
                  /\ hist.log[k][n].state = PcbStateName[PcbStateNum["PROBE_1"] + n]
            /\ hist.log[k][2].gap = PROBE_GAP_MS
            /\ hist.log[k][3].gap = PROBE_GAP_MS

C5_Witness ==
    \E k \in PCBs : Changed(k, "PROBE_3", "ANNOUNCE_1") /\ hist.chg[k].op = "tx_handle"

\* C6: when TX_HANDLE takes a PCB from ANNOUNCE_3 to RUNNING, exactly three
\* announcements have been transmitted in the announce states, the second and
\* the third 1000 ms after the one before.
C6_ThreeAnnouncements ==
    \A k \in PCBs :
        (Changed(k, "ANNOUNCE_3", "RUNNING") /\ hist.chg[k].op = "tx_handle") =>
            /\ Len(Announced(k)) = 3
            /\ \A n \in 1..3 : Announced(k)[n].kind = "announce"
            /\ Announced(k)[2].gap = ANNOUNCE_GAP_MS
            /\ Announced(k)[3].gap = ANNOUNCE_GAP_MS

\* C7: for every packet in the tx queue at most one TX_HANDLE action is pending.
C7_AtMostOnePending ==
    \A n \in 1..Len(tx_queue) : Cardinality(PendingTx(tx_queue[n].id)) <= 1

\* C8: every packet in the tx queue is transmitted or freed: when the timer and
\* the service task have nothing left to do, the tx queue is empty.
C8_NoPacketLeft ==
    Quiescent => tx_queue = <<>>

\* C9: the send_at values of the tx queue are non-decreasing from head to tail.
C9_QueueSorted ==
    Sorted(tx_queue)

\* a packet scheduled later stands before a packet scheduled earlier
C9_Witness ==
    /\ Len(tx_queue) >= 3
    /\ \E n \in 1..Len(tx_queue) - 1 :
          /\ tx_queue[n].stamp > tx_queue[n + 1].stamp
          /\ tx_queue[n].send_at < tx_queue[n + 1].send_at

\* C10: the packets taken from the tx queue are transmitted in non-decreasing
\* send_at order, packets of equal send_at in the order of their scheduling.
C10_TransmitOrder ==
    hist.order_ok

\* a packet has been transmitted while one of equal send_at, scheduled later, waits
C10_Witness ==
    /\ hist.last_tx # <<>>
    /\ \E n \in 1..Len(tx_queue) :
          /\ tx_queue[n].send_at = hist.last_tx[1].send_at
          /\ tx_queue[n].stamp > hist.last_tx[1].stamp

\* C11  A query created with max_results = N never holds more than N results,
\* whatever N the call accepted.
C11_ResultsWithinMax ==
    \A id \in SearchIds :
        searches[id].state # "NONE" =>
            Len(searches[id].result) <= searches[id].requested

\* C12  A query whose result count a matching record has brought up to the
\* max_results it was created with has been ended by the time the handler of
\* that packet is over: it is OFF, out of the list, and its completion is
\* signalled.
C12_EndedAtMax ==
    \A id \in SearchIds :
        LET x == searches[id]
        IN (x.state # "NONE" /\ x.result # <<>> /\ Len(x.result) = x.requested) =>
              /\ x.state = "OFF"
              /\ \A n \in 1..Len(search_once) : search_once[n] # id
              /\ x.done_semaphore = 1

\* C13  A blocking query that gets no matching record is ended when its
\* timeout has elapsed, not before, and the call then returns ESP_OK with no
\* result.
C13_EndedByTimeout ==
    /\ \A id \in SearchIds :
          (searches[id].done_semaphore = 1 /\ ~searches[id].matched) =>
              0 > searches[id].started_at + searches[id].timeout
    /\ \A c \in Callers :
          (calls[c].op = "query" /\ calls[c].state = "returned"
              /\ calls[c].search # 0 /\ ~calls[c].matched) =>
              calls[c].ret = "ESP_OK" /\ calls[c].results = <<>>

\* C14  A hostname_set call that has queued its action has returned only
\* when the service task has applied the HOSTNAME_SET action of that call,
\* however many tasks are inside hostname_set and delegate_hostname_add.
C14_ReturnsAfterApplied ==
    \A c \in Callers :
        (calls[c].op = "hostname_set" /\ calls[c].state = "returned"
            /\ calls[c].ret = "ESP_OK") => calls[c].applied

\* C15  When the HOSTNAME_SET action of a successful hostname_set(H) has been
\* applied, every registered service that was on the self host has hostname H.
C15_SelfServicesFollow ==
    [][(cur # <<>> /\ cur[1].type = "HOSTNAME_SET" /\ cur' = <<>>) =>
          \A n \in 1..Len(services) :
              mdns_get_host_item(Srv, services[n].hostname) = "self" =>
                  strcasecmp(services'[n].hostname, cur[1].hostname)]_vars

\* C16  After a successful service_remove(service, proto), service_exists for
\* the same service and protocol is false, whatever was registered before.
C16_RemovedIsGone ==
    [][\A v \in SvcTypes :
          (/\ cur' = cur
           /\ Cardinality(_mdns_get_service_item(Srv, v, <<>>)')
                 < Cardinality(_mdns_get_service_item(Srv, v, <<>>))) =>
              ~(mdns_service_exists(Srv, v, <<>>))']_vars

\* C17  No two registered services have the same instance name (the default
\* one when they have none), service type and hostname.
C17_NoDuplicateService ==
    \A n, m \in 1..Len(services) :
        n # m =>
            ~(/\ services[n].service = services[m].service
              /\ strcasecmp(services[n].hostname, services[m].hostname)
              /\ strcasecmp(_mdns_get_service_instance_name(Srv, services[n]),
                            _mdns_get_service_instance_name(Srv, services[m])))

\* C18  The hostname of every registered service is the name of the self host
\* or of exactly one delegated host, and not of both.
C18_OneHostPerService ==
    \A n \in 1..Len(services) :
        LET self == strcasecmp(services[n].hostname, hostname)
            delegated == {m \in 1..Len(hosts) : strcasecmp(hosts[m], services[n].hostname)}
        IN \/ self /\ delegated = {}
           \/ ~self /\ Cardinality(delegated) = 1

\* C19  A successful service_remove has sent, when it returns, a goodbye for
\* the removed service on every enabled PCB (every PCB that is neither off
\* nor the duplicate of another interface).
C19_GoodbyeOnEveryPcb ==
    [][(cur' = cur /\ Len(services') < Len(services)) =>
          LET gone == {services[n].id : n \in 1..Len(services)}
                        \ {services'[n].id : n \in 1..Len(services')}
          IN \A k \in PCBs, id \in gone :
                 pcbs[k].state \notin {"OFF", "DUP"} =>
                     \E n \in 1..Len(hist'.bye) :
                         /\ k \in hist'.bye[n].pcbs
                         /\ InSeq(id, hist'.bye[n].services)]_vars

\* C20  When the service task has handled a packet whose record conflicts
\* with our hostname and has TTL 0 or no data, the hostname and the instance
\* names are as before and no PCB has been sent back to probing.
C20_GoodbyeKeepsNames ==
    [][(/\ cur # <<>> /\ cur' = <<>>
        /\ cur[1].type = "RX_HANDLE"
        /\ cur[1].rx.a = "lose"
        /\ _mdns_name_is_selfhosted(Srv, cur[1].rx.host)
        /\ (cur[1].rx.ttl = 0 \/ cur[1].rx.data_len = 0)) =>
          /\ hostname' = hostname
          /\ [n \in 1..Len(services) |-> services[n].instance]
                = [n \in 1..Len(services') |-> services'[n].instance]
          /\ \A k \in PCBs : pcbs'[k].state = pcbs[k].state]_vars

\* C21  The hostname and every instance name are at most 63 bytes long, also
\* after they have been mangled in collisions.
C21_MangledNameFits ==
    /\ Len(hostname) <= MDNS_NAME_BUF_LEN - 1
    /\ \A n \in 1..Len(services) : Len(services[n].instance) <= MDNS_NAME_BUF_LEN - 1

\* the packet that the last step has parsed carried an A record for our
\* hostname that we lose against, and not as a known answer to a query
LostConflict ==
    /\ hist.rx # <<>>
    /\ hist.rx[1].rx.a = "lose"
    /\ hist.rx[1].rx.data_len # 0
    /\ hist.rx[1].rx.host = hist.rx[1].hostname
    /\ ~(hist.rx[1].rx.questions /\ ~hist.rx[1].rx.probe)

C23_KnownAnswerSuppressed ==
    (/\ hist.rx # <<>>
     /\ hist.rx[1].rx.qptr # ""
     /\ hist.rx[1].rx.known # <<>>
     /\ hist.rx[1].rx.ttl > MDNS_ANSWER_PTR_TTL \div 2) =>
        \A n \in 1..Len(services) :
            (/\ services[n].service = hist.rx[1].rx.qptr
             /\ strcasecmp(_mdns_get_service_instance_name(Srv, services[n]),
                           hist.rx[1].rx.known)) =>
                ~\E m \in 1..Len(hist.reply) :
                     hist.reply[m].type = "PTR" /\ hist.reply[m].service = services[n].id

PendingSyncs == {n \in 1..Len(Pending) : Pending[n].type = "BROWSE_SYNC"}

\* C26: a browse leaves the list of active browses only in the execution of
\* a BROWSE_END action for its service and protocol.
C26_BrowseStays ==
    [][\A key \in BrowseKeys :
          (/\ \E n \in 1..Len(browse) : BrowseKey(browse[n]) = key
           /\ \A n \in 1..Len(browse') : BrowseKey(browse'[n]) # key)
          => /\ cur # <<>>
             /\ cur' = <<>>
             /\ cur[1].type = "BROWSE_END"
             /\ cur[1].browse = key]_vars

\* a browse with a result that was delivered, when a delete for another
\* protocol is about to be executed
C26_Witness ==
    /\ cur # <<>>
    /\ cur[1].type = "BROWSE_END"
    /\ \E n \in 1..Len(browse) :
          /\ BrowseKey(browse[n]) # cur[1].browse
          /\ browse[n].result # <<>>
    /\ \E id \in ResultIds : hist.told[id] # <<>>

\* C27: a result that the notifier has been given and whose TTL has fallen to
\* 0 is in a BROWSE_SYNC action that the service task has still to execute
\* (which delivers and removes it), and in no more than one.
C27_ZeroTtlDeliveredOnce ==
    \A n \in 1..Len(browse) : \A m \in 1..Len(browse[n].result) :
        (browse[n].result[m].ttl = 0 /\ hist.told[browse[n].result[m].id] # <<>>) =>
            Cardinality({x \in PendingSyncs :
                            /\ Pending[x].sync.browse = BrowseKey(browse[n])
                            /\ InSeq(browse[n].result[m].id, Pending[x].sync.result)}) = 1

\* C28: a call of the notifier for a result gives it something else than the
\* call before for the same result, or a TTL of 0.
C28_DeliveryDiffers ==
    \A id \in ResultIds :
        Len(hist.told[id]) = 2 =>
            \/ hist.told[id][1] # hist.told[id][2]
            \/ hist.told[id][2].r.ttl = 0

\* a packet of questions for our names with the records we claim in its
\* authority section
IsProbePacket(p) == p.flags = "QUERY" /\ p.questions # <<>> /\ p.answers = <<>>

\* C29: every packet in the tx queue for a PCB that is in PROBE_1, PROBE_2 or
\* PROBE_3 is a probe packet.
C29_OnlyProbesWhileProbing ==
    \A n \in 1..Len(tx_queue) :
        pcbs[<<tx_queue[n].tcpip_if, tx_queue[n].ip_protocol>>].state \in ProbeStates
            => IsProbePacket(tx_queue[n])

\* a PCB that had an announcement scheduled is probing again after a conflict
C29_Witness ==
    \E k \in PCBs :
        /\ hist.chg[k].from \in AnnounceStates
        /\ hist.chg[k].op = "rx_handle"
        /\ pcbs[k].state = "PROBE_1"
        /\ \E n \in 1..Len(tx_queue) :
              tx_queue[n].tcpip_if = k[1] /\ IsProbePacket(tx_queue[n])

\* C30: decoding a name from any received packet terminates, and the read
\* returns NULL whenever it meets a compression pointer whose reference
\* address is not below the pointer's own offset, without going on at that
\* address; no pointer is followed twice, so a pointer cycle is never
\* followed.
C30_ReadFqdnTerminates ==
    fqdn.out # <<>> =>
        LET r == fqdn.out[1]
        IN  /\ ~r.cut
            /\ \A n \in 1..Len(r.met) :
                   r.met[n].to >= r.met[n].at =>
                       r.ret = NULL /\ ~r.met[n].followed /\ n = Len(r.met)
            /\ \A n, m \in 1..Len(r.met) :
                   (n # m /\ r.met[n].followed /\ r.met[m].followed) =>
                       r.met[n].at # r.met[m].at

\* A read that followed a pointer backwards, read a label there, and then met
\* a pointer that does not lead backwards and gave up
C30_Witness ==
    /\ fqdn.out # <<>>
    /\ LET r == fqdn.out[1]
       IN  /\ Len(r.met) = 2
           /\ r.met[1].to < r.met[1].at
           /\ r.met[1].followed
           /\ r.met[2].to >= r.met[2].at
           /\ ~r.met[2].followed
           /\ r.met[2].at > r.met[1].to
           /\ r.name.parts = 1
           /\ r.ret = NULL

\* C31: an API call that finds the action queue full has returned, and not
\* with ESP_OK.
C31_FullReturnsError ==
    \A c \in Callers :
        (calls[c].state = "returned" /\ calls[c].full) => calls[c].ret # "ESP_OK"

\* C32: each query is ended at most once: _mdns_search_finish, which invokes
\* its notifier and gives its done semaphore, runs at most once for it.
C32_EndedAtMostOnce ==
    \A id \in SearchIds : searches[id].ended <= 1

\* C33: between the calls of the API no task holds the server mutex, so the
\* service task can take it.
C33_MutexReleased ==
    service_semaphore = 1

\* C34: a query that has been freed is not in the list of searches, and no
\* action that waits for the service task refers to it.
C34_FreedUnreachable ==
    \A id \in SearchIds :
        searches[id].state = "NONE" =>
            /\ ~InSeq(id, search_once)
            /\ \A n \in 1..Len(Pending) : Pending[n].search # id

\* C35: when the service task has received a BROWSE_SYNC action, the browse
\* of the action is in the list of browses and every result of the action is
\* in the results of that browse.
C35_SyncRefersToLive ==
    (cur # <<>> /\ cur[1].type = "BROWSE_SYNC") =>
        \E n \in 1..Len(browse) :
            /\ BrowseKey(browse[n]) = cur[1].sync.browse
            /\ \A x \in 1..Len(cur[1].sync.result) :
                   \E m \in 1..Len(browse[n].result) :
                       browse[n].result[m].id = cur[1].sync.result[x]

\* C36  A call of mdns_hostname_set or mdns_delegate_hostname_add that has
\* queued its action and waits for action_sema returns in the end, as long as
\* the service task keeps taking and executing actions.
C36_EnqueuedCallReturns ==
    \A c \in Callers :
        (calls[c].state = "blocked") ~> (calls[c].state = "returned")

\* the packets of PCB k that wait in the tx queue
PcbPackets(k) ==
    {n \in 1..Len(tx_queue) : tx_queue[n].tcpip_if = k[1] /\ tx_queue[n].ip_protocol = k[2]}

\* C37  Between two handlers, a PCB in one of the states PROBE_1..PROBE_3 or
\* ANNOUNCE_1..ANNOUNCE_3 has a packet in the tx queue, also after a failed
\* allocation and after the removal of a service.
C37_ProbingHasPacket ==
    \A k \in PCBs :
        pcbs[k].state \in ProbeStates \cup AnnounceStates => PcbPackets(k) # {}

\* the last step has parsed an A record that the receiving PCB loses against
\* and has started its probing again
RestartedAfterCollision ==
    /\ hist.rx # <<>>
    /\ hist.rx[1].rx.a = "lose"
    /\ hist.rx[1].rx.data_len # 0
    /\ hist.rx[1].probe_running => (hist.rx[1].rx.probe \/ hist.rx[1].rx.authoritative)
    /\ pcbs[<<hist.rx[1].interface, "V4">>].state = "PROBE_1"

\* the first probe of PCB k waits 120 to 247 ms while failed_probes is at most
\* 5, and 1000 ms or more above that
BackoffDelay(k) ==
    /\ PcbPackets(k) # {}
    /\ \A n \in PcbPackets(k) :
          /\ tx_queue[n].kind = "probe"
          /\ IF pcbs[k].failed_probes <= MAX_FAILED_FAST
             THEN /\ tx_queue[n].send_at >= PROBE_START_MS
                  /\ tx_queue[n].send_at <= PROBE_START_MS + RANDOM_MASK
             ELSE tx_queue[n].send_at >= PROBE_START_SLOW_MS

C39_TransmitsOnlyQueuedHead ==
    hist.tx.sent # <<>> =>
        /\ hist.tx.sent = hist.tx.handled
        /\ hist.tx.head = hist.tx.handled[1]
        /\ hist.tx.queued

\* the handler has met a TX_HANDLE action whose packet is no longer in the tx
\* queue, while another packet waits there, and has transmitted nothing
C39_Witness ==
    /\ hist.tx.handled # <<>>
    /\ hist.tx.sent = <<>>
    /\ hist.tx.head # 0
    /\ \A n \in 1..Len(tx_queue) : tx_queue[n].id # hist.tx.handled[1]

\* C40  Between two handlers, every packet of the tx queue whose queued flag
\* is set has a TX_HANDLE action that refers to it, waiting in the action
\* queue or received by the service task and not yet executed.
C40_QueuedHasPending ==
    \A n \in 1..Len(tx_queue) :
        tx_queue[n].queued => PendingTx(tx_queue[n].id) # {}

====
